---------------------------- MODULE Spec2Model ----------------------------
(***************************************************************************)
(* A model of project_euler_offline's DocumentBuilder                      *)
(* (src/project_euler_offline/document_builder.py).                        *)
(*                                                                         *)
(* Text is modelled as a sequence of tokens.  A token is a string that the *)
(* regular expressions of the source treat as a unit: a command name       *)
(* ("\\includegraphics", "\\href"), a delimiter ("{", "}", "[", "]", "$"),  *)
(* a run of white space, or a run of other characters.  Every regular      *)
(* expression of the source is modelled by a matcher over tokens that      *)
(* follows Python's re semantics: leftmost match, non-overlapping,         *)
(* scanning resumes after the end of a match.                              *)
(***************************************************************************)
EXTENDS Integers, Sequences, FiniteSets, TLC

VARIABLES
    is_spaced,              \* DocumentBuilder._is_spaced
    color_mappings,         \* _color_mappings: insertion-ordered dict, as a sequence of entries
    classes,                \* _classes: class name -> list of problem ids
    url_paths_about,        \* _url_paths_about
    url_paths_embedded,     \* _url_paths_embedded
    url_paths_resources,    \* _url_paths_resources
    output_latex_content,   \* _output_latex_content
    output_html_debug,      \* _output_html_debug
    output_has_appendix,    \* _output_has_appendix
    appended,               \* history: the arguments of append_latex_content, in call order
    fragments,              \* history: the page fragments given to append_latex_content_page
    encountered,            \* history: the colour values the inline walk met, in order
    last_op,                \* history: the last operation, its arguments and the state before it
    ops,                    \* history: number of append operations performed
    stage,                  \* position in command_render: "render", "animated", "written"
    style_in,               \* input of the style classifier run
    style_out,              \* result of the style classifier run
    html_in,                \* input of the markup transformer run
    html_out,               \* result of the markup transformer run
    template_tex,           \* write: the text of template.tex
    output_latex,           \* write: the text written to the .tex file
    block_in,               \* input of the block class lookup: an element and its path
    block_out,              \* result of the block class lookup
    cache_rows,             \* HttpDocumentCache: the rows of table http_cache, in insertion order
    network_requests,       \* history: the URLs requested from the network, in order
    last_retrieve,          \* history: the last call of retrieve_data and its outcome
    last_forced,            \* history: per URL, the data of the last forced fetch that was
                            \* stored and not yet followed by a cached read, <<>> if none
    cache_calls,            \* history: number of calls of retrieve_data
    problems,               \* command_render: the --problems argument, as its comma groups
    problem_ids,            \* command_render: the ids still to render
    loop_problem_id,        \* command_render: problem_id, the current id, 0 for None
    explicit_problem_ids,   \* command_render: whether ids were listed
    source_mods,            \* the ids that have a source-mod file
    rendered,               \* history: the ids whose puzzle was appended, in order
    iterations,             \* history: number of iterations of the problem loop
    render_pc               \* position in command_render: "idle", "start", "loop", "done"

builder_vars == <<is_spaced, color_mappings, classes, url_paths_about, url_paths_embedded,
                  url_paths_resources, output_latex_content, output_html_debug,
                  output_has_appendix>>
history_vars == <<appended, fragments, encountered, last_op, ops, stage>>
style_vars == <<style_in, style_out>>
html_vars == <<html_in, html_out>>
write_vars == <<template_tex, output_latex>>
block_vars == <<block_in, block_out>>
cache_vars == <<cache_rows, network_requests, last_retrieve, last_forced, cache_calls>>
render_vars == <<problems, problem_ids, loop_problem_id, explicit_problem_ids, source_mods,
                 rendered, iterations, render_pc>>
ext_vars == <<write_vars, block_vars, cache_vars, render_vars>>
vars == <<builder_vars, history_vars, style_vars, html_vars, ext_vars>>

-----------------------------------------------------------------------------
(* Bounds *)

\* number of builder operations in one run
MaxOps == 2
\* number of declarations in a style string
MaxDecls == 2
\* length of an HTML fragment given to the markup transformer, in tokens
MaxHtmlLen == 5
\* largest frame count of an animated resource record
MaxFrames == 3

-----------------------------------------------------------------------------
(* Sequence helpers *)

\* position of the first occurrence of tok in s at or after i, 0 if none
IndexFrom(s, tok, i) ==
    LET at == {k \in i..Len(s) : s[k] = tok}
    IN IF at = {} THEN 0 ELSE CHOOSE k \in at : \A l \in at : k <= l

RECURSIVE Flatten(_)
Flatten(ss) == IF ss = <<>> THEN <<>> ELSE Head(ss) \o Flatten(Tail(ss))

IsPrefix(s, t) == Len(s) <= Len(t) /\ SubSeq(t, 1, Len(s)) = s

Last(s) == s[Len(s)]

\* str.replace(old, new) for a one-token old
RECURSIVE ReplaceToken(_, _, _)
ReplaceToken(s, old, new) ==
    LET p == IndexFrom(s, old, 1)
    IN IF p = 0 THEN s
       ELSE SubSeq(s, 1, p - 1) \o new \o ReplaceToken(SubSeq(s, p + 1, Len(s)), old, new)

Range(s) == {s[i] : i \in 1..Len(s)}

-----------------------------------------------------------------------------
(* parse_latex_links and its two regular expressions *)

NoMatch == [ok |-> FALSE, first |-> 0, last |-> 0, has_options |-> FALSE,
            options |-> <<>>, path |-> <<>>]

\* r"\\includegraphics(\[[^\]]*\])?{(?P<path>[^}]+)}" tried at position i.
\* The optional group either takes "[" ... first "]" or is skipped; in both
\* cases "{" must follow, then one or more non-"}" tokens, then "}".
GraphicsMatchAt(s, i) ==
    LET Closed(opt_close, brace, close) ==
            IF close > brace + 1
            THEN [ok |-> TRUE, first |-> i, last |-> close, has_options |-> opt_close > 0,
                  options |-> IF opt_close > 0 THEN SubSeq(s, i + 2, opt_close - 1) ELSE <<>>,
                  path |-> SubSeq(s, brace + 1, close - 1)]
            ELSE NoMatch
        Opened(opt_close, brace) ==
            Closed(opt_close, brace,
                   IF brace <= Len(s) /\ s[brace] = "{" THEN IndexFrom(s, "}", brace + 1) ELSE 0)
        Optioned(opt_close) == Opened(opt_close, IF opt_close > 0 THEN opt_close + 1 ELSE i + 1)
    IN IF i > Len(s) \/ s[i] # "\\includegraphics" THEN NoMatch
       ELSE Optioned(IF i + 1 <= Len(s) /\ s[i + 1] = "[" THEN IndexFrom(s, "]", i + 2) ELSE 0)

\* re.finditer / re.sub scanning order for the image-inclusion expression
RECURSIVE GraphicsMatches(_, _)
GraphicsMatches(s, i) ==
    LET Tried(p, m) ==
            IF m.ok THEN <<m>> \o GraphicsMatches(s, m.last + 1) ELSE GraphicsMatches(s, p + 1)
        Found(p) == IF p = 0 THEN <<>> ELSE Tried(p, GraphicsMatchAt(s, p))
    IN Found(IndexFrom(s, "\\includegraphics", i))

NoHref == [ok |-> FALSE, first |-> 0, last |-> 0, href_target |-> <<>>, href_label |-> <<>>]

\* r"\\href{(?P<href_target>[^}]+)}{(?P<href_label>[^}]+)}" tried at position i
HrefMatchAt(s, i) ==
    LET Closed(c1, c2) ==
            IF c2 > c1 + 2
            THEN [ok |-> TRUE, first |-> i, last |-> c2,
                  href_target |-> SubSeq(s, i + 2, c1 - 1),
                  href_label |-> SubSeq(s, c1 + 2, c2 - 1)]
            ELSE NoHref
        Targeted(c1) ==
            Closed(c1, IF c1 > i + 2 /\ c1 + 1 <= Len(s) /\ s[c1 + 1] = "{"
                       THEN IndexFrom(s, "}", c1 + 2) ELSE 0)
    IN IF i + 1 > Len(s) \/ s[i] # "\\href" \/ s[i + 1] # "{" THEN NoHref
       ELSE Targeted(IndexFrom(s, "}", i + 2))

RECURSIVE HrefMatches(_, _)
HrefMatches(s, i) ==
    LET Tried(p, m) ==
            IF m.ok THEN <<m>> \o HrefMatches(s, m.last + 1) ELSE HrefMatches(s, p + 1)
        Found(p) == IF p = 0 THEN <<>> ELSE Tried(p, HrefMatchAt(s, p))
    IN Found(IndexFrom(s, "\\href", i))

\* str.endswith(".txt"): the suffix is its own token
EndsWithTxt(target) == target # <<>> /\ Last(target) = ".txt"

\* str.startswith("about="): the prefix is its own token
StartsWithAbout(target) == target # <<>> /\ target[1] = "about="

\* the paths parse_latex_links adds to _url_paths_resources
GraphicsPaths(content) ==
    LET Paths(ms) == {ms[k].path : k \in 1..Len(ms)} IN Paths(GraphicsMatches(content, 1))

HrefTargets(content) ==
    LET Targets(ms) == {ms[k].href_target : k \in 1..Len(ms)} IN Targets(HrefMatches(content, 1))

\* the targets parse_latex_links adds to _url_paths_embedded
EmbeddedTargets(content) == {t \in HrefTargets(content) : EndsWithTxt(t)}

\* mutant: "if" where the source has "elif"
AboutTargets_If(content) == {t \in HrefTargets(content) : StartsWithAbout(t)}

\* the targets parse_latex_links adds to _url_paths_about (the elif branch)
AboutTargets(content) ==
    {t \in HrefTargets(content) : ~EndsWithTxt(t) /\ StartsWithAbout(t)}

-----------------------------------------------------------------------------
(* _transform_style_to_classes                                              *)
(* A style string is a sequence of tokens: a property name with its colon  *)
(* ("color:"), a run of white space (" "), "#", ";", or a value.  A class  *)
(* is a sequence of strings: <<"strong">>, or <<"__COLOR__", value>>.      *)

StyleSpace == {" "}

\* str.lower(), on the tokens that have upper-case letters
Lower(tok) ==
    CASE tok = "FF0000" -> "ff0000"
      [] tok = "AbCdEf" -> "abcdef"
      [] tok = "COLOR:" -> "color:"
      [] OTHER -> tok

LowerAll(s) == [i \in 1..Len(s) |-> Lower(s[i])]

\* first position at or after i whose token is not white space (Len(s)+1 if none)
RECURSIVE SkipSpace(_, _)
SkipSpace(s, i) ==
    IF i <= Len(s) /\ s[i] \in StyleSpace THEN SkipSpace(s, i + 1) ELSE i

\* last position of the maximal run of tokens matching [^;\s] starting at i (i-1 if empty)
RECURSIVE ValueEnd(_, _)
ValueEnd(s, i) ==
    IF i <= Len(s) /\ s[i] \notin StyleSpace /\ s[i] # ";" THEN ValueEnd(s, i + 1) ELSE i - 1

RECURSIVE ConcatStrings(_)
ConcatStrings(s) == IF s = <<>> THEN "" ELSE Head(s) \o ConcatStrings(Tail(s))

\* re.match("color:\s*#?(?P<color_value>[^;\s]+)", style_lower): anchored at the
\* start of the string.  "#?" gives the "#" back when nothing else follows it.
ColorMatch(style_lower) ==
    IF style_lower = <<>> \/ style_lower[1] # "color:" THEN [ok |-> FALSE, color_value |-> ""]
    ELSE LET j == SkipSpace(style_lower, 2)
             e == ValueEnd(style_lower, j)
             run == SubSeq(style_lower, j, e)
         IN IF run = <<>> THEN [ok |-> FALSE, color_value |-> ""]
            ELSE IF run[1] = "#" /\ Len(run) >= 2
                 THEN [ok |-> TRUE, color_value |-> ConcatStrings(Tail(run))]
                 ELSE [ok |-> TRUE, color_value |-> ConcatStrings(run)]

\* re.search(prop + "\s*" + value, style_lower): anywhere in the string
SearchDecl(style_lower, prop, value) ==
    \E i \in 1..Len(style_lower) :
        /\ style_lower[i] = prop
        /\ LET j == SkipSpace(style_lower, i + 1)
           IN j <= Len(style_lower) /\ style_lower[j] = value

\* re.search("font-family:[^;]*(courier new|monospace)", style_lower)
SearchFontFamily(style_lower) ==
    \E i \in 1..Len(style_lower) :
        /\ style_lower[i] = "font-family:"
        /\ \E j \in (i + 1)..Len(style_lower) :
              /\ style_lower[j] \in {"courier new", "monospace"}
              /\ \A k \in (i + 1)..(j - 1) : style_lower[k] # ";"

_transform_style_to_classes(style) ==
    LET style_lower == LowerAll(style)
        color == ColorMatch(style_lower)
    IN    (IF color.ok THEN {<<"__COLOR__", color.color_value>>} ELSE {})
       \cup (IF SearchFontFamily(style_lower) THEN {<<"monospace">>} ELSE {})
       \cup (IF SearchDecl(style_lower, "font-size:", "larger") THEN {<<"larger">>} ELSE {})
       \cup (IF SearchDecl(style_lower, "font-size:", "smaller") THEN {<<"smaller">>} ELSE {})
       \cup (IF SearchDecl(style_lower, "font-style:", "italic") THEN {<<"italic">>} ELSE {})
       \cup (IF SearchDecl(style_lower, "font-weight:", "bold") THEN {<<"strong">>} ELSE {})
       \cup (IF SearchDecl(style_lower, "text-align:", "center") THEN {<<"center">>} ELSE {})
       \cup (IF SearchDecl(style_lower, "text-decoration:", "underline") THEN {<<"underline">>} ELSE {})

-----------------------------------------------------------------------------
(* HTML text                                                               *)
(* The serialized HTML handed to _transform_html_to_latex is a sequence of *)
(* HTML tokens.  A "chr" token is a run of text (s); the other kinds are   *)
(* whole tags with their attributes: the opening tag of a span (style,     *)
(* cls), its closing tag, an image (arg: the src path) and a link (arg:    *)
(* the href target, s: the label).                                         *)

Chr(s) == [k |-> "chr", s |-> s, arg |-> <<>>, style |-> <<>>, cls |-> <<>>]
SpanOpen(style, cls) == [k |-> "span", s |-> "", arg |-> <<>>, style |-> style, cls |-> cls]
SpanClose == [k |-> "endspan", s |-> "", arg |-> <<>>, style |-> <<>>, cls |-> <<>>]
ImgTag(src) == [k |-> "img", s |-> "", arg |-> src, style |-> <<>>, cls |-> <<>>]
ATag(href, label) == [k |-> "a", s |-> label, arg |-> href, style |-> <<>>, cls |-> <<>>]

\* the text of an HTML token as it stands in the serialized string
RawText(tok) == IF tok.k = "chr" THEN tok.s ELSE "<" \o tok.k \o ">"

RawTextAll(s) == [i \in 1..Len(s) |-> RawText(s[i])]

\* f"LATEX-{marker_index}-SUBSTITUTION"
Marker(marker_index) == "LATEX-" \o ToString(marker_index) \o "-SUBSTITUTION"

\* Last position of the match of one of the three formula expressions tried at
\* position i, 0 if it does not match there.
\*   "dd": r"\$\$[^$]+?\$\$"   "d": r"\$[^$]+?\$"   "b": r"\\\[.*?\\\]" (DOTALL)
\* [^$]+? cannot cross a "$", so the span ends at the first "$" after its start.
FormulaMatchEnd(kind, s, i) ==
    CASE kind = "dd" ->
            IF i + 1 <= Len(s) /\ s[i] = Chr("$") /\ s[i + 1] = Chr("$")
            THEN LET j == IndexFrom(s, Chr("$"), i + 2)
                 IN IF j > i + 2 /\ j + 1 <= Len(s) /\ s[j + 1] = Chr("$") THEN j + 1 ELSE 0
            ELSE 0
      [] kind = "d" ->
            IF s[i] = Chr("$")
            THEN LET j == IndexFrom(s, Chr("$"), i + 1)
                 IN IF j > i + 1 THEN j ELSE 0
            ELSE 0
      [] OTHER ->
            IF s[i] = Chr("\\[") THEN IndexFrom(s, Chr("\\]"), i + 1) ELSE 0

\* re.sub(pattern, replace_with_marker, content_html): acc.out is the text
\* rebuilt so far, acc.subs the dict latex_substitutions in insertion order.
RECURSIVE SubWithMarkers(_, _, _, _)
SubWithMarkers(kind, s, i, acc) ==
    LET p == IndexFrom(s, IF kind = "b" THEN Chr("\\[") ELSE Chr("$"), i)
        e == FormulaMatchEnd(kind, s, p)
    IN IF p = 0 THEN [acc EXCEPT !.out = @ \o SubSeq(s, i, Len(s))]
       ELSE IF e > 0
       THEN SubWithMarkers(kind, s, e + 1,
                [out |-> acc.out \o SubSeq(s, i, p - 1) \o <<Chr(Marker(Len(acc.subs)))>>,
                 subs |-> Append(acc.subs, [marker |-> Marker(Len(acc.subs)),
                                            text |-> SubSeq(s, p, e)])])
       ELSE SubWithMarkers(kind, s, p + 1, [acc EXCEPT !.out = @ \o SubSeq(s, i, p)])

\* lines 176-183: the three protection passes, in source order
ProtectFormulas(content_html) ==
    LET Pass(kind, before) ==
            SubWithMarkers(kind, before.out, 1, [out |-> <<>>, subs |-> before.subs])
    IN Pass("b", Pass("d", Pass("dd", [out |-> content_html, subs |-> <<>>])))

\* lines 190-192: the three entity replacements on a protected span
Unescape(substitution) ==
    ReplaceToken(ReplaceToken(ReplaceToken(substitution, "&amp;", <<"&">>),
                              "&lt;", <<"<">>), "&gt;", <<">">>)

\* lines 189-193: for marker, substitution in latex_substitutions.items():
\* document_latex = document_latex.replace(marker, unescaped substitution)
RECURSIVE RestoreFormulas(_, _)
RestoreFormulas(document_latex, subs) ==
    IF subs = <<>> THEN document_latex
    ELSE RestoreFormulas(
             ReplaceToken(document_latex, Head(subs).marker,
                          Unescape(RawTextAll(Head(subs).text))),
             Tail(subs))

-----------------------------------------------------------------------------
(* The pandoc round trip (pandoc.read, the inline walk, pandoc.write)      *)
(* LaTeX text is a sequence of string tokens; braces and brackets are      *)
(* tokens of their own, environment markers (\begin{align}) are one token. *)

WhiteSpace == {" ", "\n", "\n\n"}

\* LATEX_INLINE_STYLES (lines 55-104): class name -> pre / post
InlineStyleNames == {"blue", "green", "italic", "larger", "largest", "monospace",
                     "orange", "red", "smaller", "smallest", "strong", "underline"}

LATEX_INLINE_STYLES[name \in InlineStyleNames] ==
    CASE name \in {"blue", "green", "orange", "red"} ->
            [pre |-> <<"{", "\\color", "{", name, "}">>, post |-> <<"}">>]
      [] name = "italic" -> [pre |-> <<"\\textit", "{">>, post |-> <<"}">>]
      [] name = "larger" -> [pre |-> <<"{", "\\large", "{", "}">>, post |-> <<"}">>]
      [] name = "largest" -> [pre |-> <<"{", "\\Large", "{", "}">>, post |-> <<"}">>]
      [] name = "monospace" -> [pre |-> <<"\\texttt", "{">>, post |-> <<"}">>]
      [] name = "smaller" -> [pre |-> <<"{", "\\small", "{", "}">>, post |-> <<"}">>]
      [] name = "smallest" -> [pre |-> <<"{", "\\footnotesize", "{", "}">>, post |-> <<"}">>]
      [] name = "strong" -> [pre |-> <<"\\textbf", "{">>, post |-> <<"}">>]
      [] OTHER -> [pre |-> <<"\\underline", "{">>, post |-> <<"}">>]

\* pandoc's LaTeX writer on a run of text: entities are decoded by the reader,
\* LaTeX's special characters escaped by the writer; anything else is verbatim
\* (a placeholder token has no special character).
EscapeText(text) ==
    CASE text = "&lt;" -> <<"\\textless", "{", "}">>
      [] text = "&gt;" -> <<"\\textgreater", "{", "}">>
      [] text = "&amp;" -> <<"\\&">>
      [] text = "$" -> <<"\\$">>
      [] text = "\\[" -> <<"\\textbackslash", "{", "}", "[">>
      [] text = "\\]" -> <<"\\textbackslash", "{", "}", "]">>
      [] text = "\\begin{align}" -> <<"\\textbackslash", "{", "}", "begin\\{align\\}">>
      [] text = "\\end{align}" -> <<"\\textbackslash", "{", "}", "end\\{align\\}">>
      [] OTHER -> <<text>>

\* pandoc's LaTeX for one HTML token that is not a span tag
WriteToken(tok) ==
    CASE tok.k = "chr" -> EscapeText(tok.s)
      [] tok.k = "img" -> <<"\\includegraphics", "{">> \o tok.arg \o <<"}">>
      [] tok.k = "a" -> <<"\\href", "{">> \o tok.arg \o <<"}", "{", tok.s, "}">>
      [] OTHER -> <<>>

RECURSIVE WriteTokens(_)
WriteTokens(s) == IF s = <<>> THEN <<>> ELSE WriteToken(Head(s)) \o WriteTokens(Tail(s))

\* pandoc.read: the inline nodes of the fragment, in document order.  A span
\* runs from its opening tag to the next closing tag (or the end of the text).
RECURSIVE PandocRead(_, _)
PandocRead(s, i) ==
    IF i > Len(s) THEN <<>>
    ELSE IF s[i].k = "span"
         THEN LET c == IndexFrom(s, SpanClose, i + 1)
                  e == IF c = 0 THEN Len(s) + 1 ELSE c
              IN <<[k |-> "Span", cls |-> s[i].cls, body |-> WriteTokens(SubSeq(s, i + 1, e - 1))]>>
                 \o PandocRead(s, e + 1)
         ELSE <<[k |-> "Inline", cls |-> <<>>, body |-> WriteToken(s[i])]>> \o PandocRead(s, i + 1)

\* f"CustomColor{len(self._color_mappings)}"
NewColorName(mappings) == "CustomColor" \o ToString(Len(mappings))

\* mutant: the membership test of line 286 always fails
HasColor_Never(mappings, color) == FALSE

HasColor(mappings, color) == \E k \in 1..Len(mappings) : mappings[k].color_value = color

ColorNameOf(mappings, color) ==
    mappings[CHOOSE k \in 1..Len(mappings) : mappings[k].color_value = color].color_name

\* lines 276-295: for cls in classes, on one Span.  st.body is elt[1],
\* st.cm is self._color_mappings, st.enc the colour values met so far.
RECURSIVE ApplyInlineClasses(_, _)
ApplyInlineClasses(cls_list, st) ==
    IF cls_list = <<>> THEN st
    ELSE LET cls == Head(cls_list)
             next ==
                 IF Len(cls) = 1 /\ cls[1] \in InlineStyleNames
                 THEN [st EXCEPT !.body = LATEX_INLINE_STYLES[cls[1]].pre \o @
                                          \o LATEX_INLINE_STYLES[cls[1]].post]
                 ELSE IF cls[1] = "__COLOR__"
                 THEN LET color == cls[2]
                          cm == IF HasColor(st.cm, color) THEN st.cm
                                ELSE Append(st.cm, [color_value |-> color,
                                                    color_name |-> NewColorName(st.cm)])
                          color_name == ColorNameOf(cm, color)
                      IN [body |-> <<"{", "\\color", "{", color_name, "}">> \o st.body \o <<"}">>,
                          cm |-> cm,
                          enc |-> Append(st.enc, color)]
                 ELSE st
         IN ApplyInlineClasses(Tail(cls_list), next)

\* lines 269-275: the Spans with classes are collected in document order and
\* processed in reverse; acc.bodies are the bodies of nodes n+1.. after the walk.
RECURSIVE InlineWalk(_, _, _)
InlineWalk(nodes, n, acc) ==
    IF n = 0 THEN acc
    ELSE LET node == nodes[n]
         IN IF node.k = "Span" /\ node.cls # <<>>
            THEN LET r == ApplyInlineClasses(node.cls,
                              [body |-> node.body, cm |-> acc.cm, enc |-> acc.enc])
                 IN InlineWalk(nodes, n - 1,
                        [bodies |-> <<r.body>> \o acc.bodies, cm |-> r.cm, enc |-> r.enc])
            ELSE InlineWalk(nodes, n - 1, [acc EXCEPT !.bodies = <<node.body>> \o @])

_transform_pandoc_document_inline_elements(document, mappings, enc) ==
    InlineWalk(document, Len(document), [bodies |-> <<>>, cm |-> mappings, enc |-> enc])

\* str.strip()
RECURSIVE Strip(_)
Strip(s) ==
    IF s = <<>> THEN s
    ELSE IF Head(s) \in WhiteSpace THEN Strip(Tail(s))
    ELSE IF Last(s) \in WhiteSpace THEN Strip(SubSeq(s, 1, Len(s) - 1))
    ELSE s

-----------------------------------------------------------------------------
(* The clean-up expressions of _transform_html_to_latex (lines 195-222)     *)

BeginEnvs == {"\\begin{align}", "\\begin{align*}", "\\begin{aligned}", "\\begin{aligned*}",
              "\\begin{equation}", "\\begin{equation*}"}
EndEnvs == {"\\end{align}", "\\end{align*}", "\\end{aligned}", "\\end{aligned*}",
            "\\end{equation}", "\\end{equation*}"}

RECURSIVE SkipWhite(_, _)
SkipWhite(s, i) == IF i <= Len(s) /\ s[i] \in WhiteSpace THEN SkipWhite(s, i + 1) ELSE i

\* ((\$\$?)|(\\\[)): number of tokens the math delimiter at i takes, 0 if none
MathDelimLen(s, i, bracket) ==
    IF i > Len(s) THEN 0
    ELSE IF s[i] = "$" THEN (IF i + 1 <= Len(s) /\ s[i + 1] = "$" THEN 2 ELSE 1)
    ELSE IF s[i] = bracket THEN 1
    ELSE 0

\* lines 196-201: a math opener, white space, then a begin marker -> the begin marker
RECURSIVE StripMathBeforeBegin(_, _)
StripMathBeforeBegin(s, i) ==
    IF i > Len(s) THEN <<>>
    ELSE LET d == MathDelimLen(s, i, "\\[")
             b == SkipWhite(s, i + d)
         IN IF d > 0 /\ b <= Len(s) /\ s[b] \in BeginEnvs
            THEN <<s[b]>> \o StripMathBeforeBegin(s, b + 1)
            ELSE <<s[i]>> \o StripMathBeforeBegin(s, i + 1)

\* lines 202-207: an end marker, white space, then a math closer -> the end marker
RECURSIVE StripMathAfterEnd(_, _)
StripMathAfterEnd(s, i) ==
    IF i > Len(s) THEN <<>>
    ELSE LET c == SkipWhite(s, i + 1)
             d == MathDelimLen(s, c, "\\]")
         IN IF s[i] \in EndEnvs /\ d > 0
            THEN <<s[i]>> \o StripMathAfterEnd(s, c + d)
            ELSE <<s[i]>> \o StripMathAfterEnd(s, i + 1)

\* lines 210-214: \begin{align}, \end{align}, \begin{equation}, \end{equation} get a star
StarEnv(tok) ==
    CASE tok = "\\begin{align}" -> "\\begin{align*}"
      [] tok = "\\end{align}" -> "\\end{align*}"
      [] tok = "\\begin{equation}" -> "\\begin{equation*}"
      [] tok = "\\end{equation}" -> "\\end{equation*}"
      [] OTHER -> tok

StarEnvs(s) == [i \in 1..Len(s) |-> StarEnv(s[i])]

\* number of white-space characters of a token
SpaceWidth(tok) == IF tok = "\n\n" THEN 2 ELSE IF tok \in WhiteSpace THEN 1 ELSE 0

RECURSIVE RunWidth(_, _, _)
RunWidth(s, i, j) == IF i > j THEN 0 ELSE SpaceWidth(s[i]) + RunWidth(s, i + 1, j)

\* (\s\s+) tried at i, greedy: last position of the run, 0 if narrower than two
WideSpaceEnd(s, i) ==
    LET e == SkipWhite(s, i) - 1
    IN IF e >= i /\ RunWidth(s, i, e) >= 2 THEN e ELSE 0

\* {(?P<name>.*?)}(\\\\)?(?P<space_post>\s\s+): the lazy name ends at the first
\* "}" at or after c that is followed by an optional line break and wide space.
RECURSIVE SoloImageClose(_, _)
SoloImageClose(s, c) ==
    LET close == IndexFrom(s, "}", c)
    IN IF close = 0 THEN [ok |-> FALSE, close |-> 0, post |-> 0, post_end |-> 0]
       ELSE LET p == IF close + 1 <= Len(s) /\ s[close + 1] = "\\\\" THEN close + 2 ELSE close + 1
                e1 == WideSpaceEnd(s, p)
                e2 == WideSpaceEnd(s, close + 1)
            IN IF e1 > 0 THEN [ok |-> TRUE, close |-> close, post |-> p, post_end |-> e1]
               ELSE IF e2 > 0 THEN [ok |-> TRUE, close |-> close, post |-> close + 1, post_end |-> e2]
               ELSE SoloImageClose(s, close + 1)

\* lines 217-222: an image-inclusion command between two runs of wide white
\* space is wrapped in a centering block; the line break after it is dropped.
RECURSIVE CenterSoloImages(_, _)
CenterSoloImages(s, i) ==
    LET NoSolo == [ok |-> FALSE, close |-> 0, post |-> 0, post_end |-> 0]
        Centered(pre_end, m) ==
            IF m.ok
            THEN SubSeq(s, i, pre_end) \o <<"\\begin{center}">> \o SubSeq(s, pre_end + 1, m.close)
                 \o <<"\\end{center}">> \o SubSeq(s, m.post, m.post_end)
                 \o CenterSoloImages(s, m.post_end + 1)
            ELSE <<s[i]>> \o CenterSoloImages(s, i + 1)
        Named(g, brace) ==
            IF brace <= Len(s) /\ s[g] = "\\includegraphics" /\ s[brace] = "{"
            THEN SoloImageClose(s, brace + 1) ELSE NoSolo
        Optioned(g, opt_close) == Named(g, IF opt_close > 0 THEN opt_close + 1 ELSE g + 1)
        Graphic(g) ==
            Optioned(g, IF g + 1 <= Len(s) /\ s[g] = "\\includegraphics" /\ s[g + 1] = "["
                        THEN IndexFrom(s, "]", g + 2) ELSE 0)
        Spaced(pre_end) == Centered(pre_end, IF pre_end > 0 THEN Graphic(pre_end + 1) ELSE NoSolo)
    IN IF i > Len(s) THEN <<>> ELSE Spaced(WideSpaceEnd(s, i))

CleanUp(document_latex) ==
    CenterSoloImages(
        StarEnvs(StripMathAfterEnd(StripMathBeforeBegin(document_latex, 1), 1)), 1)

-----------------------------------------------------------------------------
(* _transform_html_to_latex                                                 *)

\* Result: latex is the returned text, restored the text after line 193,
\* subs the dict latex_substitutions, cm and enc the palette and the colours met.
_transform_html_to_latex(content_html, mappings, enc) ==
    LET Cleaned(walked, subs, restored) ==
            [latex |-> CleanUp(restored), restored |-> restored, subs |-> subs,
             cm |-> walked.cm, enc |-> walked.enc]
        Written(walked, subs) ==
            Cleaned(walked, subs, RestoreFormulas(Strip(Flatten(walked.bodies)), subs))
        Protected(protected) ==
            Written(_transform_pandoc_document_inline_elements(
                        PandocRead(protected.out, 1), mappings, enc),
                    protected.subs)
    IN Protected(ProtectFormulas(content_html))

-----------------------------------------------------------------------------
(* The append operations.  They are operators on a record of the builder's *)
(* fields, so that a handler's nested calls compose; each action below     *)
(* stores the record its handler ends with.                                *)

Self == [spaced |-> is_spaced, out |-> output_latex_content,
         about |-> url_paths_about, embedded |-> url_paths_embedded,
         resources |-> url_paths_resources, has_appendix |-> output_has_appendix,
         appended |-> appended, fragments |-> fragments]

\* "\n\\newpage\n\n"
NEWPAGE == <<"\n", "\\newpage", "\n\n">>

\* the literal of lines 332-338
APPENDIX_HEADER ==
    <<"\\titleformat", "{", "\\section", "}", "\n",
      "{", "\\Large\\bfseries\\sffamily\\color", "{", "titleblue", "}", "}", "\n",
      "{", "\\StyledTitleBox", "{", "Appendix", "}", "}", "\n",
      "{", "0pt", "}", "\n",
      "{", "\\TitleUnderline", "{", "\\enspace", "{", "}", "#1", "}", "}", "\n",
      "\\appendix", "\n">>

\* mutant: the resource set is assigned, not added to
parse_latex_links_Assign(self, content) ==
    [self EXCEPT !.resources = GraphicsPaths(content),
                 !.embedded = @ \cup EmbeddedTargets(content),
                 !.about = @ \cup AboutTargets(content)]

parse_latex_links(self, content) ==
    [self EXCEPT !.resources = @ \cup GraphicsPaths(content),
                 !.embedded = @ \cup EmbeddedTargets(content),
                 !.about = @ \cup AboutTargets(content)]

\* mutant: the new content is put in front of the output
append_latex_content_Prepend(self, latex_content) ==
    LET scanned == parse_latex_links(self, latex_content)
    IN [scanned EXCEPT !.out = latex_content \o @,
                       !.appended = Append(@, latex_content)]

append_latex_content(self, latex_content) ==
    LET scanned == parse_latex_links(self, latex_content)
    IN [scanned EXCEPT !.out = @ \o latex_content,
                       !.appended = Append(@, latex_content)]

\* mutant: no page break before the first page fragment of a section
append_latex_content_page_FirstUnbroken(self, latex_content, section) ==
    LET first == \A k \in 1..Len(self.fragments) : self.fragments[k].section # section
        broken == IF self.spaced /\ ~first THEN append_latex_content(self, NEWPAGE) ELSE self
        noted == [broken EXCEPT !.fragments =
                      Append(@, [section |-> section, start |-> Len(broken.out) + 1,
                                 content |-> latex_content])]
    IN append_latex_content(noted, latex_content)

\* section is history only: the section the page fragment belongs to
append_latex_content_page(self, latex_content, section) ==
    LET Paged(broken) ==
            append_latex_content(
                [broken EXCEPT !.fragments =
                     Append(@, [section |-> section, start |-> Len(broken.out) + 1,
                                content |-> latex_content])],
                latex_content)
    IN Paged(IF self.spaced THEN append_latex_content(self, NEWPAGE) ELSE self)

append_problem_latex_content(self, problem_content_latex) ==
    append_latex_content(
        append_latex_content_page(self, problem_content_latex, "puzzle"), <<"\n\n">>)

append_about_latex_content(self, about_content_latex) ==
    LET headed == IF ~self.has_appendix
                  THEN append_latex_content([self EXCEPT !.has_appendix = TRUE], APPENDIX_HEADER)
                  ELSE self
    IN append_latex_content(
           append_latex_content_page(headed, about_content_latex, "appendix"), <<"\n\n">>)

\* the builder fields an append operation may change
StoreSelf(self) ==
    /\ output_latex_content' = self.out
    /\ url_paths_about' = self.about
    /\ url_paths_embedded' = self.embedded
    /\ url_paths_resources' = self.resources
    /\ output_has_appendix' = self.has_appendix
    /\ appended' = self.appended
    /\ fragments' = self.fragments

-----------------------------------------------------------------------------
(* The HTML handlers *)

\* list(set): Python fixes no order for a set; reversed picks one of two orders
RECURSIVE ListOfSet(_)
ListOfSet(S) ==
    IF S = {} THEN <<>>
    ELSE LET x == CHOOSE y \in S : TRUE IN <<x>> \o ListOfSet(S \ {x})

Reverse(s) == [i \in 1..Len(s) |-> s[Len(s) + 1 - i]]

\* lines 157-163: every span with a style gets the classes its style implies.
\* (Lines 141-155 wrap styled paragraphs and quotes; the fragments here are
\* runs of inline content, which have none.)
_transform_html_tag_class_info(tag, reversed) ==
    [i \in 1..Len(tag) |->
        IF tag[i].k = "span" /\ tag[i].style # <<>>
        THEN LET merged == ListOfSet(Range(tag[i].cls)
                                     \cup _transform_style_to_classes(tag[i].style))
             IN [tag[i] EXCEPT !.cls = IF reversed THEN Reverse(merged) ELSE merged]
        ELSE tag[i]]

\* self._classes[class_].append(problem_id)
AddClassUse(index, class_, problem_id) ==
    [c \in DOMAIN index \cup {class_} |->
        IF c = class_
        THEN (IF c \in DOMAIN index THEN Append(index[c], problem_id) ELSE <<problem_id>>)
        ELSE index[c]]

RECURSIVE AddClassUses(_, _, _)
AddClassUses(index, class_list, problem_id) ==
    IF class_list = <<>> THEN index
    ELSE AddClassUses(AddClassUse(index, Head(class_list), problem_id),
                      Tail(class_list), problem_id)

\* lines 375-380: every tag's class attribute, in document order
RECURSIVE parse_problem_html_soup(_, _, _)
parse_problem_html_soup(index, soup, problem_id) ==
    IF soup = <<>> THEN index
    ELSE parse_problem_html_soup(AddClassUses(index, Head(soup).cls, problem_id),
                                 Tail(soup), problem_id)

\* lines 452-456
ProblemContentLatex(problem_id, problem_title, body) ==
    <<"\\section", "[", "Problem \\#", ToString(problem_id), ": ", problem_title, "]",
      "{", problem_title, "}", "\n",
      "\\label", "{", "sec:problem_", ToString(problem_id), "}", "\n\n">> \o body

\* lines 392-396: raw f-strings, so the line ends are a backslash and an n
AboutContentLatex(about_url_path, about_title, body) ==
    <<"\\section", "[", "Appendix: ", about_title, "]", "{", about_title, "}", "\\n",
      "\\label", "{", "sec:">> \o about_url_path \o <<"}", "\\n\\n">> \o body

-----------------------------------------------------------------------------
(* process_animated_resources *)

Suffixes == {".gif", ".png", ".txt"}

\* pathlib's with_suffix: the suffix is the last token of a path that has one
WithSuffix(file_path, suffix) ==
    (IF file_path # <<>> /\ Last(file_path) \in Suffixes
     THEN SubSeq(file_path, 1, Len(file_path) - 1) ELSE file_path) \o suffix

\* lines 401-404: a later record of the same url_path replaces an earlier one
HasRecord(animated_resources, path) ==
    \E k \in 1..Len(animated_resources) : animated_resources[k].url_path = path

LookupRecord(animated_resources, path) ==
    LET ks == {k \in 1..Len(animated_resources) : animated_resources[k].url_path = path}
    IN animated_resources[CHOOSE k \in ks : \A j \in ks : j <= k]

ANIMATE_OPTIONS == "controls=all,keepaspectratio,loop,width=\\linewidth"

\* mutant: the last frame index is the frame count
transform_animated_resource_LastFrame(m, matched_text, animated_resources) ==
    IF HasRecord(animated_resources, m.path)
    THEN LET animated_resource == LookupRecord(animated_resources, m.path)
         IN IF animated_resource.frame_count # 1
            THEN <<"\\animategraphics", "[", ANIMATE_OPTIONS>>
                 \o (IF m.options # <<>> THEN <<",">> \o m.options ELSE <<>>)
                 \o <<"]", "{", "1", "}", "{">>
                 \o WithSuffix(animated_resource.file_path, <<>>) \o <<"-", "}">>
                 \o <<"{", "0", "}", "{", ToString(animated_resource.frame_count), "}">>
            ELSE <<"\\includegraphics", "{">>
                 \o WithSuffix(animated_resource.file_path, <<".png">>) \o <<"}">>
    ELSE matched_text

\* mutant: a command without a record is written back without its options
transform_animated_resource_Rewritten(m, matched_text, animated_resources) ==
    IF HasRecord(animated_resources, m.path)
    THEN LET animated_resource == LookupRecord(animated_resources, m.path)
         IN IF animated_resource.frame_count # 1
            THEN <<"\\animategraphics", "[", ANIMATE_OPTIONS>>
                 \o (IF m.options # <<>> THEN <<",">> \o m.options ELSE <<>>)
                 \o <<"]", "{", "1", "}", "{">>
                 \o WithSuffix(animated_resource.file_path, <<>>) \o <<"-", "}">>
                 \o <<"{", "0", "}", "{", ToString(animated_resource.frame_count - 1), "}">>
            ELSE <<"\\includegraphics", "{">>
                 \o WithSuffix(animated_resource.file_path, <<".png">>) \o <<"}">>
    ELSE <<"\\includegraphics", "{">> \o m.path \o <<"}">>

\* lines 406-426: the replacement of one match m
transform_animated_resource(m, matched_text, animated_resources) ==
    IF HasRecord(animated_resources, m.path)
    THEN LET animated_resource == LookupRecord(animated_resources, m.path)
         IN IF animated_resource.frame_count # 1
            THEN <<"\\animategraphics", "[", ANIMATE_OPTIONS>>
                 \o (IF m.options # <<>> THEN <<",">> \o m.options ELSE <<>>)
                 \o <<"]", "{", "1", "}", "{">>
                 \o WithSuffix(animated_resource.file_path, <<>>) \o <<"-", "}">>
                 \o <<"{", "0", "}", "{", ToString(animated_resource.frame_count - 1), "}">>
            ELSE <<"\\includegraphics", "{">>
                 \o WithSuffix(animated_resource.file_path, <<".png">>) \o <<"}">>
    ELSE matched_text

\* lines 428-432: re.sub over the accumulated output
RECURSIVE SubAnimated(_, _, _)
SubAnimated(s, i, animated_resources) ==
    LET p == IndexFrom(s, "\\includegraphics", i)
        m == GraphicsMatchAt(s, p)
    IN IF p = 0 THEN SubSeq(s, i, Len(s))
       ELSE IF m.ok
       THEN SubSeq(s, i, p - 1)
            \o transform_animated_resource(m, SubSeq(s, m.first, m.last), animated_resources)
            \o SubAnimated(s, m.last + 1, animated_resources)
       ELSE SubSeq(s, i, p) \o SubAnimated(s, p + 1, animated_resources)

-----------------------------------------------------------------------------
(* write: the passes over the accumulated output, the template and the      *)
(* character substitutions (lines 463-509).  A character of                  *)
(* LATEX_CHARACTER_SUBSTITUTIONS is a token named by its code point.         *)

\* tokens whose last character is "/" and that hold no other "/"
SlashTokens == {"img/", "dir/"}

Digits == {ToString(d) : d \in 0..9}

NoAttach == [ok |-> FALSE, first |-> 0, last |-> 0, base |-> <<>>, filename |-> <<>>,
             label |-> <<>>]

\* (?P<href_url_path_base>[^\s}]*?)(?P<href_filename>[^\/}]*?.txt) on the tokens
\* t of a target: the unescaped "." takes the "." of a final ".txt" token or the
\* last character of the token before a final "txt" token; the base ends with
\* the last "/" before that character and holds no white space.
AttachSplit(t) ==
    LET n == Len(t)
        dotted == n >= 1 /\ t[n] = ".txt"
        loose == n >= 2 /\ t[n] = "txt"
        body == IF dotted THEN n - 1 ELSE n - 2
        slashes == {k \in 1..body : t[k] \in SlashTokens}
        cut == IF slashes = {} THEN 0 ELSE CHOOSE k \in slashes : \A l \in slashes : l <= k
    IN IF (dotted \/ loose) /\ \A k \in 1..cut : t[k] \notin WhiteSpace
       THEN [ok |-> TRUE, base |-> SubSeq(t, 1, cut), filename |-> SubSeq(t, cut + 1, n)]
       ELSE [ok |-> FALSE, base |-> <<>>, filename |-> <<>>]

\* r"\\href{(?P<href_url_path_base>[^\s}]*?)(?P<href_filename>[^\/}]*?.txt)}{(?P<href_label>[^}]*?)}"
\* tried at position i (DOTALL: the "." may also take a "}" that stands before "txt")
AttachMatchAt(s, i) ==
    IF i + 1 > Len(s) \/ s[i] # "\\href" \/ s[i + 1] # "{" THEN NoAttach
    ELSE LET c1 == IndexFrom(s, "}", i + 2)
             c == IF c1 > 0 /\ c1 + 2 <= Len(s) /\ s[c1 + 1] = "txt" /\ s[c1 + 2] = "}"
                  THEN c1 + 2 ELSE c1
             split == IF c > 0 THEN AttachSplit(SubSeq(s, i + 2, c - 1))
                      ELSE [ok |-> FALSE, base |-> <<>>, filename |-> <<>>]
             c2 == IF c > 0 /\ c + 1 <= Len(s) /\ s[c + 1] = "{"
                   THEN IndexFrom(s, "}", c + 2) ELSE 0
         IN IF split.ok /\ c2 > 0
            THEN [ok |-> TRUE, first |-> i, last |-> c2, base |-> split.base,
                  filename |-> split.filename, label |-> SubSeq(s, c + 2, c2 - 1)]
            ELSE NoAttach

\* lines 468: \textattachfile[color=linkcolor]{filename}{label}\footnote{Source: \url{...}}
AttachReplacement(m) ==
    <<"\\textattachfile", "[", "color=", "linkcolor", "]", "{">> \o m.filename
    \o <<"}", "{">> \o m.label \o <<"}", "\\footnote", "{", "Source: ", "\\url", "{",
         "https://projecteuler.net/">> \o m.base \o m.filename \o <<"}", "}">>

\* lines 466-472: re.sub of the attachment expression
RECURSIVE ResolveEmbedded(_, _)
ResolveEmbedded(s, i) ==
    LET p == IndexFrom(s, "\\href", i)
        m == AttachMatchAt(s, p)
    IN IF p = 0 THEN SubSeq(s, i, Len(s))
       ELSE IF m.ok
       THEN SubSeq(s, i, p - 1) \o AttachReplacement(m) \o ResolveEmbedded(s, m.last + 1)
       ELSE SubSeq(s, i, p) \o ResolveEmbedded(s, p + 1)

\* the hint phrase of line 475, one token
RIGHT_CLICK == "(right click and 'Save Link/Target As...')"

RECURSIVE SpaceRunEnd(_, _)
SpaceRunEnd(s, i) == IF i <= Len(s) /\ s[i] \in WhiteSpace THEN SpaceRunEnd(s, i + 1) ELSE i

\* lines 474-479: the phrase goes with the white space on both sides of it
RECURSIVE SpaceRunStart(_, _, _)
SpaceRunStart(s, p, i) ==
    IF p > i /\ s[p - 1] \in WhiteSpace THEN SpaceRunStart(s, p - 1, i) ELSE p

RECURSIVE StripHint(_, _)
StripHint(s, i) ==
    LET p == IndexFrom(s, RIGHT_CLICK, i)
    IN IF p = 0 THEN SubSeq(s, i, Len(s))
       ELSE SubSeq(s, i, SpaceRunStart(s, p, i) - 1) \o StripHint(s, SpaceRunEnd(s, p + 1))

NoRef == [ok |-> FALSE, last |-> 0, id |-> <<>>, label |-> <<>>]

\* "\\href{" prefix "(id)}{(label [^}]*?)}" tried at position i; numeric asks \d+ of the id
RefMatchAt(s, i, prefix, numeric) ==
    IF i + 2 > Len(s) \/ s[i] # "\\href" \/ s[i + 1] # "{" \/ s[i + 2] # prefix THEN NoRef
    ELSE LET c1 == IndexFrom(s, "}", i + 3)
             c2 == IF c1 > i + 3 /\ c1 + 1 <= Len(s) /\ s[c1 + 1] = "{"
                   THEN IndexFrom(s, "}", c1 + 2) ELSE 0
         IN IF c2 > 0 /\ (numeric => \A k \in (i + 3)..(c1 - 1) : s[k] \in Digits)
            THEN [ok |-> TRUE, last |-> c2, id |-> SubSeq(s, i + 3, c1 - 1),
                  label |-> SubSeq(s, c1 + 2, c2 - 1)]
            ELSE NoRef

\* lines 482-487 (problem links) and 490-495 (about links): re.sub to \hyperref
RECURSIVE ResolveRefs(_, _, _, _, _)
ResolveRefs(s, i, prefix, numeric, anchor) ==
    LET p == IndexFrom(s, "\\href", i)
        m == RefMatchAt(s, p, prefix, numeric)
    IN IF p = 0 THEN SubSeq(s, i, Len(s))
       ELSE IF m.ok
       THEN SubSeq(s, i, p - 1)
            \o <<"\\hyperref", "[">> \o anchor \o m.id \o <<"]", "{">> \o m.label \o <<"}">>
            \o ResolveRefs(s, m.last + 1, prefix, numeric, anchor)
       ELSE SubSeq(s, i, p) \o ResolveRefs(s, p + 1, prefix, numeric, anchor)

ResolveProblemLinks(s) == ResolveRefs(s, 1, "problem=", TRUE, <<"sec:problem_">>)

ResolveAboutLinks(s) == ResolveRefs(s, 1, "about=", FALSE, <<"sec:", "about=">>)

\* lines 130-138: one \definecolor line per palette entry, in insertion order
RECURSIVE _build_latex_preamble(_)
_build_latex_preamble(mappings) ==
    IF mappings = <<>> THEN <<>>
    ELSE <<"\\definecolor", "{", Head(mappings).color_name, "}", "{", "HTML", "}", "{",
           Head(mappings).color_value, "}", "\n">> \o _build_latex_preamble(Tail(mappings))

\* string.Template.substitute(preamble=..., content=...): "$$" is a dollar sign
RECURSIVE TemplateSubstitute(_, _, _)
TemplateSubstitute(template, preamble, content) ==
    IF template = <<>> THEN <<>>
    ELSE (CASE Head(template) = "$preamble" -> preamble
            [] Head(template) = "$content" -> content
            [] Head(template) = "$$" -> <<"$">>
            [] OTHER -> <<Head(template)>>)
         \o TemplateSubstitute(Tail(template), preamble, content)

\* LATEX_CHARACTER_SUBSTITUTIONS (lines 21-53), in the order of the dict
EnsureMathChars == <<"U+2308", "U+2309", "U+230A", "U+230B", "U+2194", "U+2205", "U+2208",
                     "U+2211", "U+2260", "U+2229", "U+2248", "U+2261", "U+2264", "U+2265",
                     "U+22C5">>
CircledChars == <<"U+2460", "U+2469", "U+246A", "U+2461", "U+2462", "U+2463", "U+2464",
                  "U+2465", "U+2466", "U+2467", "U+2468">>
CircledNumbers == <<"1", "10", "11", "2", "3", "4", "5", "6", "7", "8", "9">>
GreekChars == <<"U+03BC", "U+03C0", "U+03C9">>

SubstitutedChars == <<"U+2019">> \o EnsureMathChars \o CircledChars \o <<"U+0144">> \o GreekChars

LATEX_CHARACTER_SUBSTITUTIONS(character) ==
    CASE character = "U+2019" -> <<"\\textquoteright", "{", "}">>
      [] character = "U+0144" -> <<"\\'", "{", "n", "}">>
      [] character \in Range(CircledChars) ->
           <<"\\circled", "{",
             CircledNumbers[CHOOSE k \in 1..Len(CircledChars) : CircledChars[k] = character],
             "}">>
      [] OTHER -> <<"\\ensuremath", "{", character, "}">>

\* line 506: output_latex.replace(character, substitution), from position i on
RECURSIVE ReplaceCharacter(_, _, _)
ReplaceCharacter(text, character, i) ==
    LET p == IndexFrom(text, character, i)
    IN IF p = 0 THEN SubSeq(text, i, Len(text))
       ELSE SubSeq(text, i, p - 1) \o LATEX_CHARACTER_SUBSTITUTIONS(character)
            \o ReplaceCharacter(text, character, p + 1)

\* lines 505-506: str.replace for each character in turn
RECURSIVE SubstituteCharacters(_, _)
SubstituteCharacters(text, k) ==
    IF k > Len(SubstitutedChars) THEN text
    ELSE IF IndexFrom(text, SubstitutedChars[k], 1) = 0 THEN SubstituteCharacters(text, k + 1)
    ELSE SubstituteCharacters(ReplaceCharacter(text, SubstitutedChars[k], 1), k + 1)

\* mutant: the characters are substituted in the content, before the template is filled
write_SubstituteFirst(content, mappings, template) ==
    TemplateSubstitute(template, _build_latex_preamble(mappings),
        SubstituteCharacters(
            ResolveAboutLinks(ResolveProblemLinks(StripHint(ResolveEmbedded(content, 1), 1))),
            1))

\* mutant: the about links are resolved before the attachments
write_AboutFirst(content, mappings, template) ==
    SubstituteCharacters(
        TemplateSubstitute(template, _build_latex_preamble(mappings),
            ResolveProblemLinks(StripHint(ResolveEmbedded(ResolveAboutLinks(content), 1), 1))),
        1)

\* lines 463-509: the text written to the .tex file
write(content, mappings, template) ==
    SubstituteCharacters(
        TemplateSubstitute(template, _build_latex_preamble(mappings),
            ResolveAboutLinks(ResolveProblemLinks(StripHint(ResolveEmbedded(content, 1), 1)))),
        1)

-----------------------------------------------------------------------------
(* Inputs *)

SeqsUpTo(A, n) == UNION {[1..k -> A] : k \in 0..n}

Graphics(path) == <<"\\includegraphics", "{">> \o path \o <<"}">>
GraphicsWith(options, path) == <<"\\includegraphics", "[">> \o options \o <<"]", "{">> \o path \o <<"}">>
Href(target, label) == <<"\\href", "{">> \o target \o <<"}", "{", label, "}">>

\* LaTeX given literally: source-mod files and injected content
LatexContents ==
    { <<"text", "U+2019", "U+2308", " ", RIGHT_CLICK, "\n">>
          \o Href(<<"data", "txt">>, "data") \o <<"\\href", "{", "notes", ".txt", "}", "{", "}">>
          \o Href(<<"my", " ", "dir/", "list", ".txt">>, "list")
          \o Href(<<"dir/", "names", ".txt">>, "names"),
      <<"see">> \o GraphicsWith(<<"width=3cm">>, <<"anim", ".gif">>)
          \o Graphics(<<"resource", ".png">>) \o <<"end">> \o Href(<<"about=">>, "none"),
      Graphics(<<"anim", ".gif">>) \o Graphics(<<"spin", ".gif">>) \o Graphics(<<"anim", ".gif">>),
      Href(<<"notes", ".txt">>, "notes") \o <<" ">> \o Href(<<"about=", "faq">>, "FAQ")
          \o Href(<<"about=", "licence", ".txt">>, "licence") \o Href(<<"problem=", "1">>, "P1") }

\* problem pages: the id, the title and the content of the problem_content tag
ProblemPages ==
    { [problem_id |-> 1, title |-> "Multiples", content |->
          <<Chr("Find"), SpanOpen(<<"color:", " ", "#", "FF0000">>, <<>>), Chr("red"), SpanClose,
            ImgTag(<<"anim", ".gif">>),
            SpanOpen(<<"color:", " ", "U+03C9">>, <<>>), Chr("U+03C0"), SpanClose>>],
      [problem_id |-> 2, title |-> "Fibonacci", content |->
          <<SpanOpen(<<"color:", "#", "00ff00">>, <<>>), Chr("a"), SpanClose,
            SpanOpen(<<"color:", "#", "FF0000", ";", "font-weight:", "bold">>, <<<<"note">>>>),
            Chr("b"), SpanClose, ATag(<<"about=", "faq">>, "FAQ")>>],
      [problem_id |-> 3, title |-> "Primes", content |->
          <<SpanOpen(<<"font-weight:", "bold", ";", "color:", "#", "0000ff">>, <<>>),
            Chr("$"), Chr("x"), Chr("&lt;"), Chr("$"), SpanClose,
            SpanOpen(<<"COLOR:", " ", "AbCdEf">>, <<>>), Chr("c"), SpanClose,
            SpanOpen(<<"color:", "#", "00ff00">>, <<>>), Chr("d"), SpanClose,
            ATag(<<"notes", ".txt">>, "notes"), ImgTag(<<"resource", ".png">>)>>] }

\* appendix pages: the url path, the title and the content of the about_page tag
AboutPages ==
    { [about_url_path |-> <<"about=", "faq">>, title |-> "FAQ", content |->
          <<Chr("Q"), SpanOpen(<<"color:", "#", "123456">>, <<<<"red">>>>), Chr("A"), SpanClose,
            ATag(<<"problem=", "1">>, "P1")>>],
      [about_url_path |-> <<"about=", "licence">>, title |-> "Licence", content |->
          <<ImgTag(<<"spin", ".gif">>), Chr("U+03BC"), Chr("text")>>] }

\* animated resource records as command_render builds them (app.py 164-170):
\* one record per distinct resource path
AnimRecord(n) == [url_path |-> <<"anim", ".gif">>, file_path |-> <<"img/", "anim", ".gif">>,
                  frame_count |-> n]
SpinRecord == [url_path |-> <<"spin", ".gif">>, file_path |-> <<"spin", ".gif">>,
               frame_count |-> 2]

AnimatedResourceLists ==
    {<<>>, <<SpinRecord>>, <<AnimRecord(1), SpinRecord>>}
    \cup {<<AnimRecord(n)>> : n \in 1..MaxFrames}

-----------------------------------------------------------------------------
(* Initial state: DocumentBuilder.__init__ (lines 117-128) *)

NoStyleOut == [done |-> FALSE, classes |-> {}]
NoHtmlOut == [done |-> FALSE, latex |-> <<>>, restored |-> <<>>, subs |-> <<>>]

\* nothing written yet
InitWrite == template_tex = <<>> /\ output_latex = <<>>

\* no block class lookup is under way
NoBlockIn == [elt |-> "", path |-> <<>>]
NoBlockOut == [done |-> FALSE, returned |-> "", classes |-> <<>>]
InitBlockIdle == block_in = NoBlockIn /\ block_out = NoBlockOut

\* the URLs asked of the cache
BASE_URL == "https://projecteuler.net/"
Urls == {<<BASE_URL, "problem=", ToString(id)>> : id \in 1..9} \cup {<<BASE_URL, "about">>}

\* no call of retrieve_data yet
NoRetrieve == [request_url |-> <<>>, cache_disable |-> FALSE, cache_only |-> FALSE,
               force |-> FALSE, outcome |-> "", data |-> <<>>, requested |-> FALSE,
               forced_before |-> <<>>]

InitCalls ==
    /\ network_requests = <<>> /\ last_retrieve = NoRetrieve
    /\ last_forced = [u \in Urls |-> <<>>] /\ cache_calls = 0

\* the cache is empty and has not been called
InitCacheIdle == cache_rows = <<>> /\ InitCalls

\* command_render is not under way
InitRenderIdle ==
    /\ problems = <<>> /\ problem_ids = <<>> /\ loop_problem_id = 0
    /\ explicit_problem_ids = FALSE /\ source_mods = {}
    /\ rendered = <<>> /\ iterations = 0 /\ render_pc = "idle"

InitExt == InitWrite /\ InitBlockIdle /\ InitCacheIdle /\ InitRenderIdle

InitBuilder ==
    /\ color_mappings = <<>>
    /\ classes = [c \in {} |-> <<>>]
    /\ url_paths_about = {}
    /\ url_paths_embedded = {}
    /\ url_paths_resources = {}
    /\ output_latex_content = <<>>
    /\ output_html_debug = <<>>
    /\ output_has_appendix = FALSE
    /\ appended = <<>>
    /\ fragments = <<>>
    /\ encountered = <<>>
    /\ last_op = [name |-> "init", before |-> <<>>, records |-> <<>>]
    /\ ops = 0
    /\ stage = "render"

Init ==
    /\ is_spaced \in BOOLEAN
    /\ InitBuilder
    /\ style_in = <<>> /\ style_out = NoStyleOut
    /\ html_in = <<>> /\ html_out = NoHtmlOut
    /\ InitExt

-----------------------------------------------------------------------------
(* Actions: one per public operation of DocumentBuilder *)

CanAppend == stage = "render" /\ ops < MaxOps

Noted(name) ==
    /\ last_op' = [name |-> name, before |-> output_latex_content, records |-> <<>>]
    /\ ops' = ops + 1
    /\ UNCHANGED <<is_spaced, stage, style_vars, html_vars, ext_vars>>

\* Intermediate results are bound with \E over a one-element set, which
\* evaluates them once.

AppendLatexContent ==
    /\ CanAppend
    /\ \E latex_content \in LatexContents :
       \E self \in {append_latex_content(Self, latex_content)} :
           /\ StoreSelf(self)
           /\ Noted("append_latex_content")
           /\ UNCHANGED <<color_mappings, classes, output_html_debug, encountered>>

AppendProblemLatexContent ==
    /\ CanAppend
    /\ \E problem_content_latex \in LatexContents :
       \E self \in {append_problem_latex_content(Self, problem_content_latex)} :
           /\ StoreSelf(self)
           /\ Noted("append_problem_latex_content")
           /\ UNCHANGED <<color_mappings, classes, output_html_debug, encountered>>

AppendAboutLatexContent ==
    /\ CanAppend
    /\ \E about_content_latex \in LatexContents :
       \E self \in {append_about_latex_content(Self, about_content_latex)} :
           /\ StoreSelf(self)
           /\ Noted("append_about_latex_content")
           /\ UNCHANGED <<color_mappings, classes, output_html_debug, encountered>>

\* lines 434-461: what the call does to the builder, for a page with the given
\* title and problem_content tag; reversed is the order list(set) takes
process_problem_html(problem_id, problem_title, content, reversed) ==
    \E problem_content_html \in {_transform_html_tag_class_info(content, reversed)} :
    \E t \in {_transform_html_to_latex(problem_content_html, color_mappings, encountered)} :
    \E problem_content_latex \in {ProblemContentLatex(problem_id, problem_title, t.latex)} :
    \E self \in {append_problem_latex_content(Self, problem_content_latex)} :
        /\ classes' = parse_problem_html_soup(classes, content, problem_id)
        /\ color_mappings' = t.cm
        /\ encountered' = t.enc
        /\ StoreSelf(self)
        /\ output_html_debug' = output_html_debug
               \o <<Chr("<!-- Problem "), Chr(ToString(problem_id)), Chr(" -->\n\n")>>
               \o problem_content_html \o <<Chr("\n\n")>>

ProcessProblemHtml ==
    /\ CanAppend
    /\ \E page \in ProblemPages, reversed \in BOOLEAN :
           /\ process_problem_html(page.problem_id, page.title, page.content, reversed)
           /\ Noted("process_problem_html")

\* lines 382-398
ProcessAboutHtml ==
    /\ CanAppend
    /\ \E page \in AboutPages :
       \E t \in {_transform_html_to_latex(page.content, color_mappings, encountered)} :
       \E about_content_latex \in {AboutContentLatex(page.about_url_path, page.title, t.latex)} :
       \E self \in {append_latex_content_page(Self, about_content_latex, "appendix")} :
           /\ color_mappings' = t.cm
           /\ encountered' = t.enc
           /\ StoreSelf(self)
           /\ Noted("process_about_html")
           /\ UNCHANGED <<classes, output_html_debug>>

\* lines 400-432; command_render calls it once, after the last append (app.py 180)
ProcessAnimatedResources ==
    /\ stage = "render"
    /\ \E animated_resources \in AnimatedResourceLists :
           /\ stage' = "animated"
           /\ output_latex_content' = SubAnimated(output_latex_content, 1, animated_resources)
           /\ last_op' = [name |-> "process_animated_resources", before |-> output_latex_content,
                          records |-> animated_resources]
           /\ UNCHANGED <<is_spaced, color_mappings, classes, url_paths_about, url_paths_embedded,
                          url_paths_resources, output_html_debug, output_has_appendix,
                          appended, fragments, encountered, ops, style_vars, html_vars, ext_vars>>

\* template.tex as command_render finds it (app.py 182-188): the wrapper with
\* its two placeholders, a comment and characters of its own
Templates ==
    { <<"% U+2019", "U+2019", "$$", "\n", "\\documentclass", "\n", "$preamble",
        "\\begin{document}", "U+2264", "$content", "\\end{document}", "\n">> }

\* lines 463-521; command_render calls it once, after process_animated_resources (app.py 191)
Write ==
    /\ stage = "animated"
    /\ \E t \in Templates :
          /\ template_tex' = t
          /\ output_latex' = write(output_latex_content, color_mappings, t)
    /\ stage' = "written"
    /\ UNCHANGED <<builder_vars, appended, fragments, encountered, last_op, ops,
                   style_vars, html_vars, block_vars, cache_vars, render_vars>>

Next ==
    \/ AppendLatexContent
    \/ AppendProblemLatexContent
    \/ AppendAboutLatexContent
    \/ ProcessProblemHtml
    \/ ProcessAboutHtml
    \/ ProcessAnimatedResources
    \/ Write

Spec == Init /\ [][Next]_vars

-----------------------------------------------------------------------------
(* The style classifier on its own: _transform_style_to_classes applied to  *)
(* style strings of up to MaxDecls declarations joined by ";".              *)

Declarations ==
    { <<"color:", " ", "#", "FF0000">>,
      <<"color:", "#", "00ff00">>,
      <<" ", "color:", "#", "AbCdEf">>,
      <<"color:", "red">>,
      <<"COLOR:", "#", "00ff00">>,
      <<"background-color:", "#", "FF0000">>,
      <<"font-weight:", " ", "bold">>,
      <<"font-size:", "larger">>,
      <<"font-size:", " ", "smaller">>,
      <<"font-style:", "italic">>,
      <<"font-family:", "arial, ", "courier new">>,
      <<"text-align:", "center">>,
      <<"text-decoration:", "underline">> }

RECURSIVE JoinDecls(_)
JoinDecls(ds) ==
    IF ds = <<>> THEN <<>>
    ELSE IF Len(ds) = 1 THEN ds[1]
    ELSE ds[1] \o <<";">> \o JoinDecls(Tail(ds))

StyleInputs == {JoinDecls(ds) : ds \in SeqsUpTo(Declarations, MaxDecls)}

InitStyle ==
    /\ is_spaced = FALSE
    /\ InitBuilder
    /\ style_in \in StyleInputs /\ style_out = NoStyleOut
    /\ html_in = <<>> /\ html_out = NoHtmlOut
    /\ InitExt

ClassifyStyle ==
    /\ ~style_out.done
    /\ style_out' = [done |-> TRUE, classes |-> _transform_style_to_classes(style_in)]
    /\ UNCHANGED <<builder_vars, history_vars, style_in, html_vars, ext_vars>>

SpecStyle == InitStyle /\ [][ClassifyStyle]_vars

-----------------------------------------------------------------------------
(* The markup transformer on its own: _transform_html_to_latex applied to   *)
(* text of up to MaxHtmlLen tokens.                                         *)

HtmlAlphabet == {Chr("$"), Chr("\\["), Chr("\\]"), Chr("x"), Chr("&lt;"),
                 Chr("\\begin{align}"), Chr("\\end{align}")}

HtmlInputs == SeqsUpTo(HtmlAlphabet, MaxHtmlLen)

InitHtml ==
    /\ is_spaced = FALSE
    /\ InitBuilder
    /\ style_in = <<>> /\ style_out = NoStyleOut
    /\ html_in \in HtmlInputs /\ html_out = NoHtmlOut
    /\ InitExt

TransformHtml ==
    \E t \in {_transform_html_to_latex(html_in, color_mappings, encountered)} :
        /\ ~html_out.done
        /\ html_out' = [done |-> TRUE, latex |-> t.latex, restored |-> t.restored,
                        subs |-> t.subs]
        /\ color_mappings' = t.cm
        /\ encountered' = t.enc
        /\ UNCHANGED <<is_spaced, classes, url_paths_about, url_paths_embedded,
                       url_paths_resources, output_latex_content, output_html_debug,
                       output_has_appendix, appended, fragments, last_op, ops, stage,
                       style_vars, html_in, ext_vars>>

SpecHtml == InitHtml /\ [][TransformHtml]_vars

-----------------------------------------------------------------------------
(* Claims *)

\* the page-break marker stands in the output right before fragment f
PrecededByBreak(f) ==
    /\ f.start > Len(NEWPAGE)
    /\ SubSeq(output_latex_content, f.start - Len(NEWPAGE), f.start - 1) = NEWPAGE

FirstOfSection(i) == \A j \in 1..(i - 1) : fragments[j].section # fragments[i].section

BreaksAppended == Cardinality({k \in 1..Len(appended) : appended[k] = NEWPAGE})

\* C1 as stated: in spaced mode a page break is inserted before a page fragment
\* only if the fragment is not the first of its section (puzzle or appendix);
\* when spaced mode is off no append inserts a page break.
C1_BreakOnlyAfterFirst ==
    stage = "render" =>
        /\ \A i \in 1..Len(fragments) :
              PrecededByBreak(fragments[i]) => (is_spaced /\ ~FirstOfSection(i))
        /\ ~is_spaced => BreaksAppended = 0

\* C1 amended: in spaced mode a page break is inserted before every page
\* fragment, the first of its section included; when spaced mode is off no
\* append inserts a page break.
C1_BreakBeforeEveryPage ==
    stage = "render" =>
        /\ \A i \in 1..Len(fragments) : PrecededByBreak(fragments[i]) <=> is_spaced
        /\ BreaksAppended = (IF is_spaced THEN Len(fragments) ELSE 0)

C1_Witness ==
    /\ stage = "render" /\ is_spaced
    /\ Len(fragments) = 2
    /\ fragments[1].section = fragments[2].section
    /\ PrecededByBreak(fragments[1]) /\ PrecededByBreak(fragments[2])

MarkerTokens == {Marker(n) : n \in 0..(MaxHtmlLen + 1)}

\* the text a protected span had in the input: placeholders of earlier passes
\* inside it are replaced by the text they stand for
RECURSIVE OriginalText(_, _)
OriginalText(text, subs) ==
    IF text = <<>> THEN <<>>
    ELSE LET ks == {k \in 1..Len(subs) : Head(text) = Chr(subs[k].marker)}
         IN (IF ks = {} THEN <<Head(text)>>
             ELSE OriginalText(subs[CHOOSE k \in ks : TRUE].text, subs))
            \o OriginalText(Tail(text), subs)

Contains(s, part) ==
    \E i \in 1..(Len(s) - Len(part) + 1) : SubSeq(s, i, i + Len(part) - 1) = part

\* C2 as stated: every protected formula span gets a placeholder of its own,
\* and after the restore step the text holds no placeholder and holds every
\* protected span's original text, changed only by the entity unescaping.
C2_FormulaRoundTrip ==
    html_out.done =>
        /\ \A i, j \in 1..Len(html_out.subs) :
              i # j => html_out.subs[i].marker # html_out.subs[j].marker
        /\ \A k \in 1..Len(html_out.restored) : html_out.restored[k] \notin MarkerTokens
        /\ \A i \in 1..Len(html_out.subs) :
              Contains(html_out.restored,
                       Unescape(RawTextAll(OriginalText(html_out.subs[i].text, html_out.subs))))

HexValues == {"FF0000", "00ff00", "AbCdEf"}

\* the positions of the "color: #RRGGBB" declarations of a style string
ColorDeclarations(style) ==
    {i \in 1..Len(style) :
        /\ style[i] = "color:"
        /\ LET j == SkipSpace(style, i + 1)
           IN j + 1 <= Len(style) /\ style[j] = "#" /\ style[j + 1] \in HexValues}

DeclaredColor(style, i) == style[SkipSpace(style, i + 1) + 1]

ColorTags(tags) == {c \in tags : c[1] = "__COLOR__"}

\* C3 as stated: a style string with a "color: #RRGGBB" declaration, at any
\* position, yields exactly one colour tag, with RRGGBB in the case given.
C3_ColorAnywhere ==
    style_out.done =>
        \A i \in ColorDeclarations(style_in) :
            Cardinality(ColorDeclarations(style_in)) = 1 =>
                ColorTags(style_out.classes) = {<<"__COLOR__", DeclaredColor(style_in, i)>>}

\* the distinct values of a sequence, in order of first occurrence
RECURSIVE Distinct(_)
Distinct(s) ==
    IF s = <<>> THEN <<>>
    ELSE LET front == Distinct(SubSeq(s, 1, Len(s) - 1))
         IN IF Last(s) \in Range(front) THEN front ELSE Append(front, Last(s))

PaletteInOrder ==
    LET seen == Distinct(encountered)
    IN /\ Len(color_mappings) = Len(seen)
       /\ \A k \in 1..Len(seen) :
             color_mappings[k] = [color_value |-> seen[k],
                                  color_name |-> "CustomColor" \o ToString(k - 1)]
       /\ \A i, j \in 1..Len(color_mappings) :
             i # j => /\ color_mappings[i].color_value # color_mappings[j].color_value
                      /\ color_mappings[i].color_name # color_mappings[j].color_name

\* C4: the palette only grows and an entry never changes; a colour value has
\* one entry; the k-th distinct colour value met (from 0) is named
\* CustomColor<k>; no two colour values share a name.
C4_PaletteStable ==
    /\ []PaletteInOrder
    /\ [][IsPrefix(color_mappings, color_mappings')]_vars

C4_Witness ==
    /\ Len(color_mappings) >= 3
    /\ Len(encountered) > Len(color_mappings)

FragmentInPlace(f) ==
    SubSeq(output_latex_content, f.start, f.start + Len(f.content) - 1) = f.content

OutputInCallOrder ==
    stage = "render" =>
        /\ output_latex_content = Flatten(appended)
        /\ \A i \in 1..Len(fragments) : FragmentInPlace(fragments[i])
        /\ \A i, j \in 1..Len(fragments) :
              i < j => fragments[i].start + Len(fragments[i].content) <= fragments[j].start

\* C5: the output is the appended contents in call order; an append only
\* extends the output; an earlier fragment stands before a later one.
C5_FragmentOrder ==
    /\ []OutputInCallOrder
    /\ [][stage' = "render" => IsPrefix(output_latex_content, output_latex_content')]_vars

C5_Witness ==
    /\ stage = "render"
    /\ Len(fragments) = 2
    /\ Len(appended) >= 5
    /\ fragments[1].content # fragments[2].content

ResourcesAreAppendedPaths ==
    stage = "render" =>
        url_paths_resources = UNION {GraphicsPaths(appended[k]) : k \in 1..Len(appended)}

\* C6: before the animated-resource step the image resource set is the set of
\* paths of the image-inclusion commands of the contents appended so far, and
\* no step removes an entry from a resource set.
C6_ResourceDiscovery ==
    /\ []ResourcesAreAppendedPaths
    /\ [][/\ url_paths_resources \subseteq url_paths_resources'
          /\ url_paths_embedded \subseteq url_paths_embedded'
          /\ url_paths_about \subseteq url_paths_about']_vars

C6_Witness ==
    /\ stage = "render"
    /\ Cardinality(url_paths_resources) >= 3
    /\ \E k \in 1..Len(appended) :
          Len(GraphicsMatches(appended[k], 1)) > Cardinality(GraphicsPaths(appended[k]))

AllTargets == UNION {HrefTargets(appended[k]) : k \in 1..Len(appended)}

\* C7: a hyperlink target ending in .txt is in the attachment set only, any
\* other target starting with about= is in the appendix set only, any other
\* target is in neither; the two sets are disjoint.
C7_HrefClassification ==
    /\ url_paths_embedded \cap url_paths_about = {}
    /\ \A t \in AllTargets :
          /\ EndsWithTxt(t) => (t \in url_paths_embedded /\ t \notin url_paths_about)
          /\ (~EndsWithTxt(t) /\ StartsWithAbout(t)) =>
                 (t \in url_paths_about /\ t \notin url_paths_embedded)
          /\ (~EndsWithTxt(t) /\ ~StartsWithAbout(t)) =>
                 (t \notin url_paths_about /\ t \notin url_paths_embedded)
    /\ url_paths_embedded \cup url_paths_about \subseteq AllTargets

C7_Witness ==
    /\ <<"about=", "licence", ".txt">> \in url_paths_embedded
    /\ <<"notes", ".txt">> \in url_paths_embedded
    /\ <<"about=", "faq">> \in url_paths_about
    /\ <<"problem=", "1">> \in AllTargets

-----------------------------------------------------------------------------
(* Reading the output of process_animated_resources back: the output is    *)
(* walked side by side with the output before the call.                    *)

\* a brace group "{" body "}" at position i
Group(s, i) ==
    IF i <= Len(s) /\ s[i] = "{" /\ IndexFrom(s, "}", i + 1) > 0
    THEN [ok |-> TRUE, body |-> SubSeq(s, i + 1, IndexFrom(s, "}", i + 1) - 1),
          last |-> IndexFrom(s, "}", i + 1)]
    ELSE [ok |-> FALSE, body |-> <<>>, last |-> 0]

NoCommand == [ok |-> FALSE, kind |-> "none", has_options |-> FALSE, options |-> <<>>,
              path |-> <<>>, rate |-> <<>>, base |-> <<>>, first_frame |-> <<>>,
              last_frame |-> <<>>, last |-> 0]

\* \animategraphics[options]{rate}{base}{first}{last} at position j
AnimatedCommandAt(s, j) ==
    IF j + 1 <= Len(s) /\ s[j] = "\\animategraphics" /\ s[j + 1] = "["
       /\ IndexFrom(s, "]", j + 2) > 0
    THEN LET c == IndexFrom(s, "]", j + 2)
             g1 == Group(s, c + 1)
             g2 == Group(s, g1.last + 1)
             g3 == Group(s, g2.last + 1)
             g4 == Group(s, g3.last + 1)
         IN IF g1.ok /\ g2.ok /\ g3.ok /\ g4.ok
            THEN [ok |-> TRUE, kind |-> "animated", has_options |-> TRUE,
                  options |-> SubSeq(s, j + 2, c - 1), path |-> <<>>, rate |-> g1.body,
                  base |-> g2.body, first_frame |-> g3.body, last_frame |-> g4.body,
                  last |-> g4.last]
            ELSE NoCommand
    ELSE NoCommand

\* the command that stands at position j of the rewritten output
CommandAt(s, j) ==
    IF j <= Len(s) /\ s[j] = "\\animategraphics" THEN AnimatedCommandAt(s, j)
    ELSE LET g == GraphicsMatchAt(s, j)
         IN IF g.ok
            THEN [NoCommand EXCEPT !.ok = TRUE, !.kind = "still", !.has_options = g.has_options,
                                   !.options = g.options, !.path = g.path, !.last = g.last]
            ELSE NoCommand

Misaligned == [aligned |-> FALSE, has_record |-> FALSE, kept |-> FALSE,
               m |-> NoMatch, cmd |-> NoCommand]

\* the positions where an image-inclusion command can start
CommandStarts(s) == {k \in 1..Len(s) : s[k] = "\\includegraphics"}

\* One entry per image-inclusion command of before: whether a record has its
\* path, whether its tokens stand unchanged in after, and the command that
\* stands in its place.  Tokens outside the commands must be the same in both
\* texts; a Misaligned entry ends the walk where they are not.  starts are the
\* CommandStarts of before, i and j the positions reached in before and after.
RECURSIVE Edits(_, _, _, _, _, _)
Edits(before, starts, i, after, j, records) ==
    IF \A k \in starts : k < i
    THEN (IF SubSeq(before, i, Len(before)) = SubSeq(after, j, Len(after))
          THEN <<>> ELSE <<Misaligned>>)
    ELSE LET p == CHOOSE k \in starts : k >= i /\ \A l \in starts : l >= i => k <= l
             q == j + (p - i)
             m == GraphicsMatchAt(before, p)
             n == m.last - m.first
             cmd == CommandAt(after, q)
         IN IF q > Len(after) \/ SubSeq(before, i, p) # SubSeq(after, j, q)
            THEN (IF m.ok /\ HasRecord(records, m.path) /\ q <= Len(after) + 1
                     /\ SubSeq(before, i, p - 1) = SubSeq(after, j, q - 1) /\ cmd.ok
                  THEN <<[aligned |-> TRUE, has_record |-> TRUE, kept |-> FALSE,
                          m |-> m, cmd |-> cmd]>>
                       \o Edits(before, starts, m.last + 1, after, cmd.last + 1, records)
                  ELSE <<Misaligned>>)
            ELSE IF ~m.ok THEN Edits(before, starts, p + 1, after, q + 1, records)
            ELSE IF ~HasRecord(records, m.path)
            THEN (IF q + n <= Len(after) /\ SubSeq(after, q, q + n) = SubSeq(before, p, p + n)
                  THEN <<[aligned |-> TRUE, has_record |-> FALSE, kept |-> TRUE,
                          m |-> m, cmd |-> cmd]>>
                       \o Edits(before, starts, m.last + 1, after, q + n + 1, records)
                  ELSE <<Misaligned>>)
            ELSE (IF cmd.ok
                  THEN <<[aligned |-> TRUE, has_record |-> TRUE, kept |-> FALSE,
                          m |-> m, cmd |-> cmd]>>
                       \o Edits(before, starts, m.last + 1, after, cmd.last + 1, records)
                  ELSE <<Misaligned>>)

AnimatedEdits ==
    Edits(last_op.before, CommandStarts(last_op.before), 1, output_latex_content, 1,
          last_op.records)

StripSuffix(file_path) ==
    IF file_path # <<>> /\ Last(file_path) \in Suffixes
    THEN SubSeq(file_path, 1, Len(file_path) - 1) ELSE file_path

RecordOf(path) ==
    last_op.records[CHOOSE k \in 1..Len(last_op.records) : last_op.records[k].url_path = path]

\* C8: every image-inclusion command whose path is a record's url_path is
\* rewritten by frame count: 1 gives a still-image command of the record's
\* file path with suffix .png; n >= 2 gives an animated-image command with
\* frame rate 1, the file path without suffix plus "-", frames 0 to n-1.
C8_FrameCountDispatch ==
    stage = "animated" =>
        \A edits \in {AnimatedEdits} : \A k \in 1..Len(edits) :
            /\ edits[k].aligned
            /\ edits[k].has_record =>
                 \A r \in {RecordOf(edits[k].m.path)}, cmd \in {edits[k].cmd} :
                    IF r.frame_count = 1
                    THEN /\ cmd.kind = "still"
                         /\ cmd.path = StripSuffix(r.file_path) \o <<".png">>
                    ELSE /\ cmd.kind = "animated"
                         /\ cmd.rate = <<"1">>
                         /\ cmd.base = StripSuffix(r.file_path) \o <<"-">>
                         /\ cmd.first_frame = <<"0">>
                         /\ cmd.last_frame = <<ToString(r.frame_count - 1)>>

C8_Witness ==
    /\ stage = "animated"
    /\ \E edits \in {AnimatedEdits} :
          /\ \E k \in 1..Len(edits) : edits[k].has_record /\ edits[k].cmd.kind = "still"
          /\ \E k \in 1..Len(edits) : /\ edits[k].has_record
                                      /\ edits[k].cmd.kind = "animated"
                                      /\ edits[k].cmd.last_frame = <<"1">>

\* C9 as stated: a rewritten image-inclusion command that had options still
\* carries them, whether its record has frame count 1 or more.
C9_OptionsPreserved ==
    stage = "animated" =>
        \A edits \in {AnimatedEdits} : \A k \in 1..Len(edits) :
            (edits[k].aligned /\ edits[k].has_record /\ edits[k].m.options # <<>>) =>
                /\ edits[k].cmd.has_options
                /\ Contains(edits[k].cmd.options, edits[k].m.options)

AnimatedUntouched ==
    stage = "animated" =>
        \A edits \in {AnimatedEdits} :
            /\ \A k \in 1..Len(edits) :
                  edits[k].aligned /\ (~edits[k].has_record => edits[k].kept)
            /\ (\A k \in 1..Len(edits) : ~edits[k].has_record)
                  => output_latex_content = last_op.before

\* C10: process_animated_resources leaves every image-inclusion command
\* without a record as it is, leaves the text outside the image-inclusion
\* commands as it is, and changes neither the palette nor a resource set.
C10_AnimatedFrame ==
    /\ []AnimatedUntouched
    /\ [][stage' # stage =>
             UNCHANGED <<color_mappings, url_paths_resources, url_paths_embedded,
                         url_paths_about>>]_vars

C10_Witness ==
    /\ stage = "animated"
    /\ last_op.records # <<>>
    /\ color_mappings # <<>>
    /\ \E edits \in {AnimatedEdits} :
          /\ \E k \in 1..Len(edits) : /\ edits[k].kept
                                      /\ edits[k].m.path = <<"resource", ".png">>
                                      /\ edits[k].m.options = <<>>
          /\ \E k \in 1..Len(edits) : edits[k].has_record

-----------------------------------------------------------------------------
(* C11: the character substitutions are the last pass of write              *)

\* position k of the written document holds a character inside \ensuremath{ }
InEnsureMath(k) ==
    /\ k > 2 /\ k < Len(output_latex)
    /\ output_latex[k - 2] = "\\ensuremath"
    /\ output_latex[k - 1] = "{"
    /\ output_latex[k + 1] = "}"

\* C11: once write has run, no character of LATEX_CHARACTER_SUBSTITUTIONS is
\* left bare anywhere in the written document, be it in the template's own
\* text, in the generated preamble or in the content: the characters that have
\* no ASCII replacement stand inside \ensuremath{ }, the others are gone.
C11_NoBareCharacter ==
    stage = "written" =>
        \A k \in 1..Len(output_latex) :
            output_latex[k] \in Range(SubstitutedChars) =>
                /\ output_latex[k] \in Range(EnsureMathChars) \cup Range(GreekChars)
                /\ InEnsureMath(k)

\* a written document whose template text, preamble and content each held a
\* character of the set
C11_Witness ==
    /\ stage = "written"
    /\ \E k \in 1..Len(template_tex) : template_tex[k] = "U+2264"
    /\ \E k \in 1..Len(color_mappings) : color_mappings[k].color_value = "U+03C9"
    /\ \E k \in 1..Len(output_latex_content) : output_latex_content[k] = "U+2308"
    /\ \E k \in 1..Len(output_latex) : output_latex[k] = "U+2264" /\ InEnsureMath(k)
    /\ \E k \in 1..Len(output_latex) : output_latex[k] = "U+03C9" /\ InEnsureMath(k)
    /\ \E k \in 1..Len(output_latex) : output_latex[k] = "U+2308" /\ InEnsureMath(k)
    /\ \E k \in 1..Len(output_latex) : output_latex[k] = "\\textquoteright"

-----------------------------------------------------------------------------
(* C12: the internal links after write                                      *)

\* the text of the \label command of a page's LaTeX
LabelOf(latex) ==
    LET l == IndexFrom(latex, "\\label", 1)
    IN SubSeq(latex, l + 2, IndexFrom(latex, "}", l + 2) - 1)

\* the label process_problem_html emits for the page whose id is written id
ProblemLabel(id) ==
    LabelOf(ProblemContentLatex(CHOOSE n \in 0..9 : <<ToString(n)>> = id, "", <<>>))

\* the label process_about_html emits for the page about=<id>
AboutLabel(id) == LabelOf(AboutContentLatex(<<"about=">> \o id, "", <<>>))

\* the places of s where a link to a problem (numeric id) or to an appendix
\* page (some id) starts
ProblemLinkSites(s) == {p \in 1..Len(s) : RefMatchAt(s, p, "problem=", TRUE).ok}
AboutLinkSites(s) == {p \in 1..Len(s) : RefMatchAt(s, p, "about=", FALSE).ok}

\* the anchor the link at place p of s is to point at
AnchorOfLink(s, p) ==
    IF p \in ProblemLinkSites(s)
    THEN ProblemLabel(RefMatchAt(s, p, "problem=", TRUE).id)
    ELSE AboutLabel(RefMatchAt(s, p, "about=", FALSE).id)

\* the anchors of the links at the places P of s, in the order of the text
RECURSIVE AnchorsInOrder(_, _)
AnchorsInOrder(s, P) ==
    IF P = {} THEN <<>>
    ELSE LET p == CHOOSE q \in P : \A r \in P : q <= r
         IN <<AnchorOfLink(s, p)>> \o AnchorsInOrder(s, P \ {p})

\* the anchors of the \hyperref commands of s, in the order of the text
RECURSIVE HyperrefAnchors(_, _)
HyperrefAnchors(s, i) ==
    LET p == IndexFrom(s, "\\hyperref", i)
    IN IF p = 0 THEN <<>>
       ELSE <<SubSeq(s, p + 2, IndexFrom(s, "]", p + 2) - 1)>> \o HyperrefAnchors(s, p + 1)

\* C12 as stated: write turns every link to a problem with a numeric id and
\* every link to an appendix page into a \hyperref to the label of that page,
\* in place, and leaves no such link in the written document.
C12_EveryLinkResolved ==
    stage = "written" =>
        /\ HyperrefAnchors(output_latex, 1)
               = AnchorsInOrder(output_latex_content,
                     ProblemLinkSites(output_latex_content)
                         \cup AboutLinkSites(output_latex_content))
        /\ ProblemLinkSites(output_latex) = {}
        /\ AboutLinkSites(output_latex) = {}

\* the links the attachment pass, which runs first, does not take
LinksLeftToResolve(s) ==
    {p \in ProblemLinkSites(s) \cup AboutLinkSites(s) : ~AttachMatchAt(s, p).ok}

\* C12, amended: the links to an appendix page that the attachment pass takes
\* (their target ends like a text file's) become attachments; every other link
\* to a problem with a numeric id or to an appendix page with a non-empty id
\* becomes a \hyperref to the label of that page, in place, and no such link is
\* left in the written document.
C12_LinksResolvedAfterAttachments ==
    stage = "written" =>
        /\ HyperrefAnchors(output_latex, 1)
               = AnchorsInOrder(output_latex_content, LinksLeftToResolve(output_latex_content))
        /\ ProblemLinkSites(output_latex) = {}
        /\ AboutLinkSites(output_latex) = {}

\* a written document that had a link to a problem, a link to an appendix page,
\* a link to an appendix page whose target ends in ".txt" and a link with an
\* empty appendix id, which alone is still a link
C12_Witness ==
    /\ stage = "written"
    /\ <<"sec:problem_", "1">> \in Range(HyperrefAnchors(output_latex, 1))
    /\ <<"sec:", "about=", "faq">> \in Range(HyperrefAnchors(output_latex, 1))
    /\ \E p \in AboutLinkSites(output_latex_content) : AttachMatchAt(output_latex_content, p).ok
    /\ \E p \in 1..(Len(output_latex) - 3) :
           SubSeq(output_latex, p, p + 3) = <<"\\href", "{", "about=", "}">>
    /\ \E p \in 1..(Len(output_latex_content) - 3) :
           SubSeq(output_latex_content, p, p + 3) = <<"\\href", "{", "about=", "}">>

-----------------------------------------------------------------------------
(* The block class lookup on its own: match_block_classes applied to an     *)
(* element and the path pandoc.iter gives for it, the holders of the        *)
(* element from the document root (first) to its direct holder (last).      *)

\* depth of the path of an element
MaxDepth == 3

\* a holder on a path: a Div with its class list, a Para, a Plain, a
\* BlockQuote, a Python list (the children of a node), or a node of another
\* type (the Pandoc root, a BulletList, a Table, ...)
Div(class_list) == [k |-> "Div", classes |-> class_list]
Holder(kind) == [k |-> kind, classes |-> <<>>]

Holders == {Div(<<"center">>), Div(<<"note", "info">>), Div(<<>>),
            Holder("Para"), Holder("Plain"), Holder("BlockQuote"), Holder("list"),
            Holder("Other")}

ElementKinds == {"Para", "Plain", "Header"}

\* a walk that a Para or Plain holder does not end
RECURSIVE WalkUp_PastParagraphs(_, _)
WalkUp_PastParagraphs(path, n) ==
    IF n = 0 THEN [returned |-> "None", classes |-> <<>>]
    ELSE IF path[n].k = "Div" THEN [returned |-> "classes", classes |-> path[n].classes]
    ELSE IF path[n].k \in {"Para", "Plain"} THEN WalkUp_PastParagraphs(path, n - 1)
    ELSE IF path[n].k \notin {"BlockQuote", "list"} THEN [returned |-> "None", classes |-> <<>>]
    ELSE WalkUp_PastParagraphs(path, n - 1)

\* lines 233-239: for parent, _ in path[::-1], from holder n of the path down to
\* the first; the function returns None when the loop ends or is broken
RECURSIVE WalkUp(_, _)
WalkUp(path, n) ==
    IF n = 0 THEN [returned |-> "None", classes |-> <<>>]
    ELSE IF path[n].k = "Div" THEN [returned |-> "classes", classes |-> path[n].classes]
    ELSE IF path[n].k \in {"Para", "Plain"} THEN [returned |-> "None", classes |-> <<>>]
    ELSE IF path[n].k \notin {"BlockQuote", "list"} THEN [returned |-> "None", classes |-> <<>>]
    ELSE WalkUp(path, n - 1)

\* mutant: a Para or Plain holder does not end the walk
match_block_classes_PastParagraphs(elt, path) ==
    IF elt \in {"Para", "Plain"} THEN WalkUp_PastParagraphs(path, Len(path))
    ELSE [returned |-> "None", classes |-> <<>>]

\* lines 231-239
match_block_classes(elt, path) ==
    IF elt \in {"Para", "Plain"} THEN WalkUp(path, Len(path))
    ELSE [returned |-> "None", classes |-> <<>>]

InitBlock ==
    /\ is_spaced = FALSE
    /\ InitBuilder
    /\ style_in = <<>> /\ style_out = NoStyleOut
    /\ html_in = <<>> /\ html_out = NoHtmlOut
    /\ InitWrite /\ InitCacheIdle /\ InitRenderIdle
    /\ block_in \in [elt : ElementKinds, path : SeqsUpTo(Holders, MaxDepth)]
    /\ block_out = NoBlockOut

MatchBlockClasses ==
    /\ ~block_out.done
    /\ \E r \in {match_block_classes(block_in.elt, block_in.path)} :
           block_out' = [done |-> TRUE, returned |-> r.returned, classes |-> r.classes]
    /\ UNCHANGED <<builder_vars, history_vars, style_vars, html_vars, write_vars, block_in,
                   cache_vars, render_vars>>

SpecBlock == InitBlock /\ [][MatchBlockClasses]_vars

-----------------------------------------------------------------------------
(* C13: which classes a block takes from its holders                        *)

\* holder d of the path is a Div and every holder between it and the element
\* is a BlockQuote or a list
ReachableDiv(path, d) ==
    /\ path[d].k = "Div"
    /\ \A k \in (d + 1)..Len(path) : path[k].k \in {"BlockQuote", "list"}

\* the classes the comprehension of lines 241-245 keeps for the element: a
\* None and an empty list are both dropped
KeptClasses == IF block_out.returned = "classes" THEN block_out.classes ELSE <<>>

\* C13: a Para or Plain element takes the classes of a Div exactly when that
\* Div is reachable through BlockQuote and list holders only, which makes it
\* the nearest Div of the path; a Para, a Plain or a holder of another type
\* in between, or no Div at all, leaves the element without classes, and so
\* does any element that is not a Para or a Plain.
C13_NearestDivClasses ==
    block_out.done =>
        /\ \A d \in 1..Len(block_in.path) :
               (block_in.elt \in {"Para", "Plain"} /\ ReachableDiv(block_in.path, d))
                   => KeptClasses = block_in.path[d].classes
        /\ KeptClasses # <<>> =>
               /\ block_in.elt \in {"Para", "Plain"}
               /\ \E d \in 1..Len(block_in.path) :
                      /\ ReachableDiv(block_in.path, d)
                      /\ \A e \in (d + 1)..Len(block_in.path) : block_in.path[e].k # "Div"

\* a paragraph in a quote in a Div with classes that lies inside a farther Div
\* with other classes: it took the nearer Div's classes
C13_Witness ==
    /\ block_out.done
    /\ block_in.elt = "Para"
    /\ block_in.path = <<Div(<<"note", "info">>), Div(<<"center">>), Holder("BlockQuote")>>
    /\ KeptClasses = <<"center">>

-----------------------------------------------------------------------------
(* HttpDocumentCache.retrieve_data (http_document_cache.py)                 *)
(* A row of http_cache is its request_url and its response_data; the table  *)
(* has no key, and rows are only ever inserted.                             *)

Row(request_url, response_data) ==
    [request_url |-> request_url, response_data |-> response_data]

\* the rows the select of lines 59-62 ranges over
MatchingRows(rows, request_url) == {k \in 1..Len(rows) : rows[k].request_url = request_url}

\* next(cursor, None): the select has no ORDER BY, so which of the matching
\* rows comes first is not fixed by the statement; 0 stands for None
FirstRows(rows, request_url) ==
    IF MatchingRows(rows, request_url) = {} THEN {0} ELSE MatchingRows(rows, request_url)

\* what the network answers to a GET: a status and a payload
OK == "200"
FOUND == "302"

Returned(outcome, data, rows, requested) ==
    [outcome |-> outcome, data |-> data, rows |-> rows, requested |-> requested]

\* mutant: cache_only does not keep the call from the network
retrieve_data_IgnoreCacheOnly(rows, request_url, cache_disable, cache_only, force, first, response) ==
    IF ~cache_disable /\ ~force /\ first # 0 /\ Len(rows[first].response_data) # 0
    THEN Returned("data", rows[first].response_data, rows, FALSE)
    ELSE IF response.status = OK
    THEN IF Len(response.data) = 0
         THEN Returned("MissingDataError", <<>>, rows, TRUE)
         ELSE Returned("data", response.data,
                       IF ~cache_disable THEN Append(rows, Row(request_url, response.data))
                       ELSE rows, TRUE)
    ELSE IF response.status = FOUND THEN Returned("MissingDataError", <<>>, rows, TRUE)
    ELSE Returned("DataRetrievalError", <<>>, rows, TRUE)

\* lines 54-110.  first is the row the select yields (0: none), response the
\* answer of the network should it be asked.  The result is what the call
\* returns or raises, the table after the call, and whether the network was
\* asked.
retrieve_data(rows, request_url, cache_disable, cache_only, force, first, response) ==
    IF ~cache_disable /\ ~force /\ first # 0 /\ Len(rows[first].response_data) # 0
    THEN Returned("data", rows[first].response_data, rows, FALSE)
    ELSE IF cache_only THEN Returned("None", <<>>, rows, FALSE)
    ELSE IF response.status = OK
    THEN IF Len(response.data) = 0
         THEN Returned("MissingDataError", <<>>, rows, TRUE)
         ELSE Returned("data", response.data,
                       IF ~cache_disable THEN Append(rows, Row(request_url, response.data))
                       ELSE rows, TRUE)
    ELSE IF response.status = FOUND THEN Returned("MissingDataError", <<>>, rows, TRUE)
    ELSE Returned("DataRetrievalError", <<>>, rows, TRUE)

\* what the network may answer
Responses == {[status |-> OK, data |-> <<"d1">>], [status |-> OK, data |-> <<"d2">>],
              [status |-> OK, data |-> <<>>], [status |-> FOUND, data |-> <<>>],
              [status |-> "500", data |-> <<>>]}

\* a forced fetch that was stored
ForcedStore(cache_disable, cache_only, force, got) ==
    force /\ ~cache_disable /\ ~cache_only /\ got.outcome = "data"

\* the cache and the history after a call that ended as got
Retrieved(request_url, cache_disable, cache_only, force, got) ==
    /\ cache_rows' = got.rows
    /\ network_requests' = IF got.requested THEN Append(network_requests, request_url)
                           ELSE network_requests
    /\ last_retrieve' = [request_url |-> request_url, cache_disable |-> cache_disable,
                         cache_only |-> cache_only, force |-> force,
                         outcome |-> got.outcome, data |-> got.data,
                         requested |-> got.requested,
                         forced_before |-> last_forced[request_url]]
    /\ last_forced' = [last_forced EXCEPT ![request_url] =
                          IF ForcedStore(cache_disable, cache_only, force, got) THEN got.data
                          ELSE IF ~force /\ ~cache_disable THEN <<>>
                          ELSE @]
    /\ cache_calls' = cache_calls + 1

-----------------------------------------------------------------------------
(* The cache on its own: any sequence of up to MaxCalls calls of            *)
(* retrieve_data for two URLs, with any flags and any answer of the network *)

MaxCalls == 3

CalledUrls == {<<BASE_URL, "problem=", "1">>, <<BASE_URL, "about">>}

InitCache ==
    /\ is_spaced = FALSE
    /\ InitBuilder
    /\ style_in = <<>> /\ style_out = NoStyleOut
    /\ html_in = <<>> /\ html_out = NoHtmlOut
    /\ InitWrite /\ InitBlockIdle /\ InitCacheIdle /\ InitRenderIdle

RetrieveData ==
    /\ cache_calls < MaxCalls
    /\ \E request_url \in CalledUrls, cache_disable \in BOOLEAN, cache_only \in BOOLEAN,
          force \in BOOLEAN, response \in Responses :
       \E first \in FirstRows(cache_rows, request_url) :
       \E got \in {retrieve_data(cache_rows, request_url, cache_disable, cache_only, force,
                                 first, response)} :
           Retrieved(request_url, cache_disable, cache_only, force, got)
    /\ UNCHANGED <<builder_vars, history_vars, style_vars, html_vars, write_vars, block_vars,
                   render_vars>>

SpecCache == InitCache /\ [][RetrieveData]_vars

-----------------------------------------------------------------------------
(* C15: what a read of the cache returns after a forced fetch               *)

\* C15: when a forced fetch for a URL has been stored, the next call for that
\* URL that may read the cache (force and cache_disable both off) returns the
\* data of that fetch and does not ask the network.
C15_FreshAfterForce ==
    (/\ cache_calls > 0
     /\ ~last_retrieve.force /\ ~last_retrieve.cache_disable
     /\ last_retrieve.forced_before # <<>>) =>
        /\ last_retrieve.outcome = "data"
        /\ last_retrieve.data = last_retrieve.forced_before
        /\ ~last_retrieve.requested

-----------------------------------------------------------------------------
(* The problem loop of command_render (app.py 73-110) on its own            *)

\* largest problem id that is cached or has a source-mod file
MaxProblemId == 3

\* self._args.base_url + f"problem={problem_id}"
ProblemUrl(id) == <<BASE_URL, "problem=", ToString(id)>>

\* the page stored for a problem: its title and its problem_content tag
PageOf(id) == CHOOSE page \in ProblemPages : page.problem_id = ((id - 1) % 3) + 1

TitleTag(title) == [k |-> "title", s |-> title, arg |-> <<>>, style |-> <<>>, cls |-> <<>>]

\* the bytes of the page: the title, then the problem_content tag
PageData(id) == <<TitleTag(PageOf(id).title)>> \o PageOf(id).content

\* the text of source_mods/<id>.tex
SourceModLatex(id) == <<"\\section", "{", "Problem ", ToString(id), "}", "\n">>

\* the --problems argument: comma groups, each one id or a range "a-b";
\* <<>> is an argument that was not given
One(a) == [range |-> FALSE, a |-> a, b |-> a]
Range_(a, b) == [range |-> TRUE, a |-> a, b |-> b]

ProblemsArguments ==
    {<<>>, <<One(2)>>, <<One(2), One(1)>>, <<Range_(1, MaxProblemId)>>,
     <<Range_(3, 1)>>, <<Range_(2, 3), One(2)>>}

\* range(problem_start, problem_end + 1)
RECURSIVE RangeList(_, _)
RangeList(a, b) == IF a > b THEN <<>> ELSE <<a>> \o RangeList(a + 1, b)

\* lines 203-213
RECURSIVE iterate_problem_ids(_)
iterate_problem_ids(groups) ==
    IF groups = <<>> THEN <<>>
    ELSE (IF Head(groups).range THEN RangeList(Head(groups).a, Head(groups).b)
          ELSE <<Head(groups).a>>) \o iterate_problem_ids(Tail(groups))

\* the tables a run of the fetch command leaves: one row for each fetched page
RECURSIVE RowsOf(_, _)
RowsOf(ids, n) ==
    IF n > MaxProblemId THEN <<>>
    ELSE (IF n \in ids THEN <<Row(ProblemUrl(n), PageData(n))>> ELSE <<>>) \o RowsOf(ids, n + 1)

SourceModSets == {{}, {2}, {MaxProblemId}}

\* what the network would answer when asked for the page of a problem
PageResponses(id) ==
    {[status |-> OK, data |-> PageData(id)], [status |-> OK, data |-> <<>>],
     [status |-> FOUND, data |-> <<>>], [status |-> "500", data |-> <<>>]}

InitRender ==
    /\ is_spaced = FALSE
    /\ InitBuilder
    /\ style_in = <<>> /\ style_out = NoStyleOut
    /\ html_in = <<>> /\ html_out = NoHtmlOut
    /\ InitWrite /\ InitBlockIdle
    /\ cache_rows \in {RowsOf(ids, 1) : ids \in SUBSET (1..MaxProblemId)}
    /\ InitCalls
    /\ problems \in ProblemsArguments
    /\ source_mods \in SourceModSets
    /\ problem_ids = <<>> /\ loop_problem_id = 0 /\ explicit_problem_ids = FALSE
    /\ rendered = <<>> /\ iterations = 0 /\ render_pc = "start"

\* lines 76-80
RenderBegin ==
    /\ render_pc = "start"
    /\ problem_ids' = iterate_problem_ids(problems)
    /\ explicit_problem_ids' = (iterate_problem_ids(problems) # <<>>)
    /\ render_pc' = "loop"
    /\ UNCHANGED <<builder_vars, history_vars, style_vars, html_vars, write_vars, block_vars,
                   cache_vars, problems, loop_problem_id, source_mods, rendered, iterations>>

\* lines 84-89: the id of this iteration
NextProblemId ==
    IF explicit_problem_ids THEN Head(problem_ids)
    ELSE IF loop_problem_id = 0 THEN 1
    ELSE loop_problem_id + 1

\* what one iteration does whatever its branch
Iterated(name) ==
    /\ loop_problem_id' = NextProblemId
    /\ problem_ids' = IF explicit_problem_ids THEN Tail(problem_ids) ELSE problem_ids
    /\ iterations' = iterations + 1
    /\ last_op' = [name |-> name, before |-> output_latex_content, records |-> <<>>]
    /\ UNCHANGED <<is_spaced, stage, style_vars, html_vars, write_vars, block_vars,
                   problems, explicit_problem_ids, source_mods>>

\* lines 95-97: the problem has a source-mod file
RenderSourceMod ==
    /\ render_pc = "loop"
    /\ ~explicit_problem_ids \/ problem_ids # <<>>
    /\ NextProblemId \in source_mods
    /\ \E self \in {append_problem_latex_content(Self, SourceModLatex(NextProblemId))} :
           StoreSelf(self)
    /\ rendered' = Append(rendered, NextProblemId)
    /\ ops' = ops + 1
    /\ Iterated("append_problem_latex_content")
    /\ UNCHANGED <<color_mappings, classes, output_html_debug, encountered, cache_vars,
                   render_pc>>

\* lines 98-108: the page is asked of the cache, cache_only=True
RenderCachedPage ==
    /\ render_pc = "loop"
    /\ ~explicit_problem_ids \/ problem_ids # <<>>
    /\ NextProblemId \notin source_mods
    /\ \E first \in FirstRows(cache_rows, ProblemUrl(NextProblemId)),
          response \in PageResponses(NextProblemId) :
       \E got \in {retrieve_data(cache_rows, ProblemUrl(NextProblemId), FALSE, TRUE, FALSE,
                                 first, response)} :
           /\ got.outcome \in {"data", "None"}
           /\ Retrieved(ProblemUrl(NextProblemId), FALSE, TRUE, FALSE, got)
           /\ IF got.outcome = "data"
              THEN /\ \E reversed \in BOOLEAN :
                          process_problem_html(NextProblemId, got.data[1].s, Tail(got.data),
                                               reversed)
                   /\ rendered' = Append(rendered, NextProblemId)
                   /\ ops' = ops + 1
                   /\ render_pc' = "loop"
                   /\ Iterated("process_problem_html")
              ELSE /\ render_pc' = "done"
                   /\ Iterated("break")
                   /\ UNCHANGED <<builder_vars, appended, fragments, encountered, ops, rendered>>

\* line 83: the loop condition is false
RenderLoopEnd ==
    /\ render_pc = "loop"
    /\ explicit_problem_ids /\ problem_ids = <<>>
    /\ render_pc' = "done"
    /\ UNCHANGED <<builder_vars, history_vars, style_vars, html_vars, write_vars, block_vars,
                   cache_vars, problems, problem_ids, loop_problem_id, explicit_problem_ids,
                   source_mods, rendered, iterations>>

NextRender == RenderBegin \/ RenderSourceMod \/ RenderCachedPage \/ RenderLoopEnd

SpecRender == InitRender /\ [][NextRender]_vars

-----------------------------------------------------------------------------
(* C14: the problem loop ends                                               *)

\* the cache holds a page for the problem
Cached(id) ==
    \E k \in 1..Len(cache_rows) :
        cache_rows[k].request_url = ProblemUrl(id) /\ Len(cache_rows[k].response_data) # 0

\* the problem can be rendered without the network
Available(id) == id \in source_mods \/ Cached(id)

\* the ids the --problems argument lists
ListedIds == iterate_problem_ids(problems)

\* fragment j of the output is the puzzle of problem j
PuzzleOf(j) ==
    /\ fragments[j].section = "puzzle"
    /\ IF j \in source_mods THEN fragments[j].content = SourceModLatex(j)
       ELSE LabelOf(fragments[j].content) = <<"sec:problem_", ToString(j)>>

\* the ids up to MaxProblemId that can be rendered without the network
AvailableIds == {j \in 1..MaxProblemId : Available(j)}

\* C14: the problem loop never asks the network.  With listed ids it makes at
\* most one iteration for each.  Without, every iteration but the last is for
\* an id that is cached or source-modded, so the loop makes at most one
\* iteration more than there are such ids; once it has ended, the current id
\* is the first that is neither cached nor source-modded, and the puzzles
\* appended are those of the ids before it, in ascending order.
C14_LoopTerminates ==
    /\ network_requests = <<>>
    /\ ListedIds # <<>> => iterations <= Len(ListedIds)
    /\ ListedIds = <<>> =>
           /\ loop_problem_id = iterations
           /\ iterations <= Cardinality(AvailableIds) + 1
           /\ \A j \in 1..(loop_problem_id - 1) : Available(j)
           /\ render_pc = "loop" => \A j \in 1..loop_problem_id : Available(j)
    /\ (render_pc = "done" /\ ListedIds = <<>>) =>
           /\ loop_problem_id >= 1
           /\ ~Available(loop_problem_id)
           /\ rendered = [j \in 1..(loop_problem_id - 1) |-> j]
           /\ Len(fragments) = loop_problem_id - 1
           /\ \A j \in 1..(loop_problem_id - 1) : PuzzleOf(j)

\* a run without listed ids that ended at id 3, the first id with neither a
\* cached page nor a source-mod file, after the cached page of problem 1 and
\* the source-mod file of problem 2
C14_Witness ==
    /\ render_pc = "done"
    /\ ListedIds = <<>>
    /\ loop_problem_id = 3
    /\ Cached(1) /\ 2 \in source_mods /\ ~Available(3)
    /\ rendered = <<1, 2>>
    /\ iterations = 3

-----------------------------------------------------------------------------
(* C16: the header of the appendix                                          *)

\* the places of the output where the appendix header block stands
HeaderStarts ==
    {p \in 1..(Len(output_latex_content) - Len(APPENDIX_HEADER) + 1) :
        SubSeq(output_latex_content, p, p + Len(APPENDIX_HEADER) - 1) = APPENDIX_HEADER}

\* the page fragments appended as appendix pages
AppendixFragments == {k \in 1..Len(fragments) : fragments[k].section = "appendix"}

\* C16: while pages are appended, the output holds the appendix header block
\* exactly once, before the first appendix page, when an appendix page was
\* appended by either operation, and not at all otherwise.
C16_AppendixHeaderOnce ==
    stage = "render" =>
        IF AppendixFragments = {} THEN HeaderStarts = {}
        ELSE /\ Cardinality(HeaderStarts) = 1
             /\ \A p \in HeaderStarts : \A k \in AppendixFragments : p < fragments[k].start

-----------------------------------------------------------------------------
(* C17: the attachments of the written document and the discovered files    *)

\* the text between the "{" at place b of s and the next "}"
Braced(s, b) == SubSeq(s, b + 1, IndexFrom(s, "}", b + 1) - 1)

\* the targets of the attachments of the written document, read from the
\* source URL of their footnotes
AttachedTargets ==
    {Tail(Braced(output_latex, p + 1)) :
        p \in {q \in 1..(Len(output_latex) - 2) :
                  /\ output_latex[q] = "\\url" /\ output_latex[q + 1] = "{"
                  /\ output_latex[q + 2] = "https://projecteuler.net/"}}

\* the targets of the hyperlinks the written document still holds
PlainLinkTargets ==
    {Braced(output_latex, p + 1) :
        p \in {q \in 1..(Len(output_latex) - 1) :
                  output_latex[q] = "\\href" /\ output_latex[q + 1] = "{"}}

\* C17: in the written document every attachment is one of the files
\* parse_latex_links discovered, and no hyperlink to a discovered file is left.
C17_AttachmentsAreDiscovered ==
    stage = "written" =>
        /\ AttachedTargets \subseteq url_paths_embedded
        /\ PlainLinkTargets \cap url_paths_embedded = {}

=============================================================================
